---- MODULE Spec2Model ----
(***************************************************************************)
(* Model of the swarm-consensus turn pipeline (lib/orchestrator.ts,        *)
(* lib/agentGenerator.ts, lib/utils.ts, lib/config.ts, app/api/chat).      *)
(*                                                                         *)
(* Conventions                                                             *)
(*  - A JavaScript string is a sequence of symbols; " " is whitespace.     *)
(*  - A JavaScript number-or-string value is [num, n]: num = TRUE means    *)
(*    the finite number n, num = FALSE a value that is not a finite        *)
(*    number (NaN, a string, a function): arithmetic on it yields NaN.     *)
(*  - A plain JavaScript object is the sequence of its own entries         *)
(*    [key, val] in property enumeration order.                            *)
(***************************************************************************)
EXTENDS Integers, Sequences, FiniteSets, TLC

VARIABLES
  pc,            \* where the request (or the aggregation run) stands
  body,          \* the body of the chat request; from admission on, the
                 \* parameters handed to runSwarmTurn
  calls,         \* calls issued so far, per external service
  generator,     \* the task of the agent generator call
  workers,       \* the worker personas of the turn
  search,        \* the task of the web search call
  webFindings,   \* the findings of the web search
  proposals,     \* the tasks of the proposal stage, one per worker
  revisions,     \* the tasks of the discussion round, one per candidate
  ballots,       \* the tasks of the judging stage, one per judge
  candidates,    \* the candidates of the turn
  votes,         \* the votes of the turn
  votingResult,  \* the result of aggregateVotes
  finalizer,     \* the task of the finalizer call
  response,      \* the response of the chat route
  prompts,       \* the web section of every prompt sent, per stage
  input,         \* the arguments of a function that is run on its own
  output         \* what that function returned or raised

vars == <<pc, body, calls, generator, workers, search, webFindings, proposals,
          revisions, ballots, candidates, votes, votingResult, finalizer, response,
          prompts, input, output>>

(***************************************************************************)
(* Bounds of the model.                                                    *)
(***************************************************************************)
MaxVotes == 2
MaxCands == 2
MaxRanked == 2
MaxRequested == 2
\* Requested counts range from -MaxCount to MAX_WORKERS + MaxCount.
MaxCount == 10

(***************************************************************************)
(* JavaScript object semantics used by aggregateVotes.                     *)
(***************************************************************************)

\* Property names every plain object inherits from Object.prototype
\* (a sample of them): `k in obj` is true for these even when obj has no
\* own property k.
ProtoKeys == {"toString"}

\* Keys that are canonical array indices ("0", "1", ...): own properties with
\* such keys are enumerated first, in ascending numeric order.
IndexKeys == <<"0", "1", "2", "3">>

ArrayIndex(k) ==
  IF \E i \in 1..Len(IndexKeys) : IndexKeys[i] = k
  THEN (CHOOSE i \in 1..Len(IndexKeys) : IndexKeys[i] = k) - 1
  ELSE -1

Num(n) == [num |-> TRUE, n |-> n]
NotANumber == [num |-> FALSE, n |-> 0]
\* The function object a plain object inherits under a name of ProtoKeys,
\* and the strings that += makes of it: the text of the function followed
\* by the decimal digits appended so far. n is 1 followed by those digits.
FunctionValue == [num |-> FALSE, n |-> 1]

HasOwn(obj, k) == \E i \in 1..Len(obj) : obj[i].key = k

\* The `in` operator: own or inherited property.
In(obj, k) == HasOwn(obj, k) \/ k \in ProtoKeys

\* obj[k]: the own value, else the inherited one (a function object), else
\* undefined; neither of the last two is a number.
Get(obj, k) ==
  IF HasOwn(obj, k)
  THEN obj[CHOOSE i \in 1..Len(obj) : obj[i].key = k].val
  ELSE IF k \in ProtoKeys THEN FunctionValue
  ELSE NotANumber

\* Position at which a new own key is enumerated: array indices ascending
\* before every other key, other keys in insertion order.
InsertPos(obj, k) ==
  IF ArrayIndex(k) >= 0
  THEN 1 + Cardinality({i \in 1..Len(obj) :
                          /\ ArrayIndex(obj[i].key) >= 0
                          /\ ArrayIndex(obj[i].key) < ArrayIndex(k)})
  ELSE Len(obj) + 1

\* obj[k] = v
Set(obj, k, v) ==
  IF HasOwn(obj, k)
  THEN [i \in 1..Len(obj) |-> IF obj[i].key = k THEN [key |-> k, val |-> v] ELSE obj[i]]
  ELSE LET p == InsertPos(obj, k)
       IN  SubSeq(obj, 1, p - 1) \o <<[key |-> k, val |-> v]>> \o SubSeq(obj, p, Len(obj))

\* Object.fromEntries(entries)
RECURSIVE FromEntries(_)
FromEntries(entries) ==
  IF entries = <<>> THEN <<>>
  ELSE LET last == entries[Len(entries)]
       IN  Set(FromEntries(SubSeq(entries, 1, Len(entries) - 1)), last.key, last.val)

\* a + b of the += operator: number addition, or string concatenation when
\* the left side is a function or a string (the digits of a number b from
\* 0 to 99 are appended), or NaN.
Plus(a, b) ==
  IF a.num /\ b.num THEN Num(a.n + b.n)
  ELSE IF ~a.num /\ a.n > 0 /\ b.num /\ b.n >= 0
  THEN [num |-> FALSE, n |-> a.n * (IF b.n < 10 THEN 10 ELSE 100) + b.n]
  ELSE NotANumber

\* obj[k] += v
AddTo(obj, k, v) == Set(obj, k, Plus(Get(obj, k), v))

Max(a, b) == IF a >= b THEN a ELSE b
Min(a, b) == IF a <= b THEN a ELSE b

(***************************************************************************)
(* aggregateVotes (lib/orchestrator.ts).                                   *)
(***************************************************************************)

\* vote.rankedIds.filter((id) => id in totals)
RECURSIVE FilterKnown(_, _)
FilterKnown(ids, totals) ==
  IF ids = <<>> THEN <<>>
  ELSE (IF In(totals, Head(ids)) THEN <<Head(ids)>> ELSE <<>>)
       \o FilterKnown(Tail(ids), totals)

\* ranked.forEach((candidateId, index) => totals[candidateId] +=
\*   Math.max(ranked.length - index - 1, 0)), from the 1-based position i on.
RECURSIVE AddRankPoints(_, _, _)
AddRankPoints(totals, ranked, i) ==
  IF i > Len(ranked) THEN totals
  ELSE AddRankPoints(AddTo(totals, ranked[i], Num(Max(Len(ranked) - (i - 1) - 1, 0))),
                     ranked, i + 1)

\* Object.entries(vote.scores).forEach(([candidateId, score]) => { if
\*   (candidateId in totals && Number.isFinite(score)) totals[candidateId] += score })
RECURSIVE AddScores(_, _, _)
AddScores(totals, scores, i) ==
  IF i > Len(scores) THEN totals
  ELSE AddScores(IF In(totals, scores[i].key) /\ scores[i].val.num
                 THEN AddTo(totals, scores[i].key, scores[i].val)
                 ELSE totals,
                 scores, i + 1)

\* A fold that counts the rank points of a vote and leaves its scores out.
FoldVoteRanksOnly(totals, vote) ==
  AddRankPoints(totals, FilterKnown(vote.rankedIds, totals), 1)

\* The body of votes.forEach for one vote.
FoldVote(totals, vote) ==
  AddScores(AddRankPoints(totals, FilterKnown(vote.rankedIds, totals), 1), vote.scores, 1)

RECURSIVE FoldVotes(_, _)
FoldVotes(totals, vs) ==
  IF vs = <<>> THEN totals
  ELSE FoldVotes(FoldVote(totals, Head(vs)), Tail(vs))

\* A comparator that sorts by ascending score.
CompareScoreAscending(a, b) ==
  IF a.score.num /\ b.score.num THEN a.score.n - b.score.n ELSE 0

\* The comparator (a, b) => b.score - a.score; a NaN result counts as 0.
CompareScore(a, b) == IF a.score.num /\ b.score.num THEN b.score.n - a.score.n ELSE 0

\* Insertion of x into a sorted list, after every element that does not
\* compare greater than it (Array.prototype.sort is stable).
RECURSIVE InsertSorted(_, _)
InsertSorted(sorted, x) ==
  IF sorted = <<>> THEN <<x>>
  ELSE IF CompareScore(sorted[Len(sorted)], x) > 0
       THEN InsertSorted(SubSeq(sorted, 1, Len(sorted) - 1), x) \o <<sorted[Len(sorted)]>>
       ELSE sorted \o <<x>>

RECURSIVE SortRanking(_)
SortRanking(entries) ==
  IF entries = <<>> THEN <<>>
  ELSE InsertSorted(SortRanking(SubSeq(entries, 1, Len(entries) - 1)), entries[Len(entries)])

InitialTotals(cands) ==
  FromEntries([i \in 1..Len(cands) |-> [key |-> cands[i].id, val |-> Num(0)]])

RankingOf(totals) ==
  SortRanking([i \in 1..Len(totals) |-> [candidateId |-> totals[i].key, score |-> totals[i].val]])

\* aggregateVotes(votes, candidates). threw = TRUE stands for the TypeError
\* of candidates[0].id on an empty candidate list with an empty ranking.
aggregateVotes(vs, cands) ==
  LET totals  == FoldVotes(InitialTotals(cands), vs)
      ranking == RankingOf(totals)
  IN  IF ranking = <<>> /\ cands = <<>>
      THEN [threw |-> TRUE, winnerId |-> "", totals |-> <<>>, ranking |-> <<>>]
      ELSE [threw |-> FALSE,
            winnerId |-> IF ranking # <<>> THEN ranking[1].candidateId ELSE cands[1].id,
            totals |-> totals,
            ranking |-> ranking]

NoVotingResult == [threw |-> FALSE, winnerId |-> "", totals |-> <<>>, ranking |-> <<>>]

(***************************************************************************)
(* Strings and the text extraction utility (lib/utils.ts).                 *)
(***************************************************************************)

IsSpace(ch) == ch = " "

\* String.prototype.trim
TrimLeft(s) ==
  IF \A i \in 1..Len(s) : IsSpace(s[i]) THEN <<>>
  ELSE SubSeq(s, CHOOSE i \in 1..Len(s) :
                   ~IsSpace(s[i]) /\ \A j \in 1..(i - 1) : IsSpace(s[j]),
              Len(s))

TrimRight(s) ==
  IF \A i \in 1..Len(s) : IsSpace(s[i]) THEN <<>>
  ELSE SubSeq(s, 1, CHOOSE i \in 1..Len(s) :
                      ~IsSpace(s[i]) /\ \A j \in (i + 1)..Len(s) : IsSpace(s[j]))

Trim(s) == TrimRight(TrimLeft(s))

\* JavaScript values: [t, v] with t the type tag and v the payload (a string
\* for "string", a sequence for "array", the entries for "object").
Undefined == [t |-> "undefined", v |-> <<>>]
JsNull == [t |-> "null", v |-> <<>>]
JsString(s) == [t |-> "string", v |-> s]
JsNumber(n) == [t |-> "number", v |-> n]
JsArray(a) == [t |-> "array", v |-> a]
JsObject(o) == [t |-> "object", v |-> o]

\* A parsed JSON value: kind is "object", "null" or "number"; obj maps the
\* member names of an object to JavaScript values.
NoMembers == [name \in {} |-> Undefined]
JsonObject(members) == [kind |-> "object", obj |-> members]
JsonNull == [kind |-> "null", obj |-> NoMembers]
JsonNumber == [kind |-> "number", obj |-> NoMembers]

\* json.name for a value that is not null (a missing member, or any member
\* of a number, is undefined).
Member(json, name) ==
  IF json.kind = "object" /\ name \in DOMAIN json.obj THEN json.obj[name] ELSE Undefined

\* Tokens of a model reply: "FENCE" a code fence (three backquotes), "json" the fence's language
\* tag, " " whitespace, "{" and "}" braces, "members" a well-formed member
\* list (its meaning is given beside the text), "null" and "7" JSON
\* literals; any other token is prose.
Fence == "FENCE"

FirstIndex(s, tok) ==
  IF \E i \in 1..Len(s) : s[i] = tok
  THEN CHOOSE i \in 1..Len(s) : s[i] = tok /\ \A j \in 1..(i - 1) : s[j] # tok
  ELSE 0

LastIndex(s, tok) ==
  IF \E i \in 1..Len(s) : s[i] = tok
  THEN CHOOSE i \in 1..Len(s) : s[i] = tok /\ \A j \in (i + 1)..Len(s) : s[j] # tok
  ELSE 0

\* text.replace(/```(?:json)?\s*([\s\S]*?)\s*```/g, "$1"): every fenced block,
\* leftmost first, is replaced by its content without the language tag and
\* without the white space around it.
RECURSIVE StripFences(_)
StripFences(s) ==
  LET open == FirstIndex(s, Fence)
      rest == SubSeq(s, open + 1, Len(s))
      untagged == IF rest # <<>> /\ Head(rest) = "json" THEN Tail(rest) ELSE rest
      close == FirstIndex(untagged, Fence)
  IN  IF open = 0 \/ close = 0 THEN s
      ELSE SubSeq(s, 1, open - 1)
           \o Trim(SubSeq(untagged, 1, close - 1))
           \o StripFences(SubSeq(untagged, close + 1, Len(untagged)))

RECURSIVE DropSpaces(_)
DropSpaces(s) ==
  IF s = <<>> THEN <<>>
  ELSE (IF IsSpace(Head(s)) THEN <<>> ELSE <<Head(s)>>) \o DropSpaces(Tail(s))

\* JSON.parse(text): ok = FALSE stands for the SyntaxError.
JsonParse(s, members) ==
  LET t == DropSpaces(s)
  IN  IF t = <<"{", "members", "}">> THEN [ok |-> TRUE, value |-> JsonObject(members)]
      ELSE IF t = <<"{", "}">> THEN [ok |-> TRUE, value |-> JsonObject(NoMembers)]
      ELSE IF t = <<"null">> THEN [ok |-> TRUE, value |-> JsonNull]
      ELSE IF t = <<"7">> THEN [ok |-> TRUE, value |-> JsonNumber]
      ELSE [ok |-> FALSE, value |-> JsonNull]

\* An extraction that answers an empty object when nothing parses.
parseJsonFromModelLoose(text, members, fallback) ==
  IF text = <<>> THEN fallback
  ELSE LET cleanText == Trim(StripFences(text))
           strict == JsonParse(cleanText, members)
           firstBrace == FirstIndex(cleanText, "{")
           lastBrace == LastIndex(cleanText, "}")
           inner == JsonParse(SubSeq(cleanText, firstBrace, lastBrace), members)
       IN  IF strict.ok THEN strict.value
           ELSE IF firstBrace # 0 /\ lastBrace # 0 /\ lastBrace > firstBrace /\ inner.ok
                THEN inner.value
                ELSE JsonObject(NoMembers)

\* parseJsonFromModel(text, fallback); members is what the "members" token
\* of the text denotes.
parseJsonFromModel(text, members, fallback) ==
  IF text = <<>> THEN fallback
  ELSE LET cleanText == Trim(StripFences(text))
           strict == JsonParse(cleanText, members)
           firstBrace == FirstIndex(cleanText, "{")
           lastBrace == LastIndex(cleanText, "}")
           inner == JsonParse(SubSeq(cleanText, firstBrace, lastBrace), members)
       IN  IF strict.ok THEN strict.value
           ELSE IF firstBrace # 0 /\ lastBrace # 0 /\ lastBrace > firstBrace /\ inner.ok
                THEN inner.value
                ELSE fallback

(***************************************************************************)
(* Configuration (lib/config.ts) and the pre-flight gate of the chat route.*)
(***************************************************************************)
MAX_WORKERS == 64

\* Per-agent costs and the discussion multiplier, in hundredths (1.4 s,
\* 4.25 s, x1.75).
FAST_AGENT_COST_CENTIS == 140
REASONING_AGENT_COST_CENTIS == 425
DISCUSSION_TIME_MULTIPLIER_CENTIS == 175

\* The configured ceiling, in seconds. It is read from the environment
\* (default 280); the model runs under a low ceiling, so that swarms of one
\* and two workers fall on both sides of the gate.
SWARM_RUNTIME_BUDGET_SECONDS == 5

\* An estimate that leaves the discussion multiplier out.
estimateIgnoringDiscussion(agentsCount, mode, discussionEnabled) ==
  agentsCount * (IF mode = "reasoning" THEN REASONING_AGENT_COST_CENTIS
                 ELSE FAST_AGENT_COST_CENTIS) * 100

\* estimateSwarmRuntimeSeconds, in units of 1/10000 s.
estimateSwarmRuntime(agentsCount, mode, discussionEnabled) ==
  LET perAgent == IF mode = "reasoning" THEN REASONING_AGENT_COST_CENTIS
                  ELSE FAST_AGENT_COST_CENTIS
      discussionFactor == IF discussionEnabled THEN DISCUSSION_TIME_MULTIPLIER_CENTIS ELSE 100
  IN  agentsCount * perAgent * discussionFactor

\* estimatedSeconds > SWARM_RUNTIME_BUDGET_SECONDS
OverBudget(agentsCount, mode, discussionEnabled) ==
  estimateSwarmRuntime(agentsCount, mode, discussionEnabled)
    > SWARM_RUNTIME_BUDGET_SECONDS * 10000

\* clampAgents(desired), for a finite integer.
clampAgents(desired) == Min(Max(1, desired), MAX_WORKERS)

\* The agentsCount of a parsed request body: t is "undefined" for a missing
\* member, "finite" for a finite number, whose value is tenths / 10, and
\* else what the value is ("nan", "infinity", "-infinity", "null", "string",
\* "boolean").
BodyCount(t, tenths) == [t |-> t, tenths |-> tenths]

\* The destructuring default `agentsCount = 4`: it replaces undefined only.
DefaultCount(value) == IF value.t = "undefined" THEN BodyCount("finite", 40) ELSE value

\* Math.trunc of tenths / 10
Trunc(tenths) == IF tenths >= 0 THEN tenths \div 10 ELSE -((-tenths) \div 10)

\* A clamp without the Number.isFinite check: Math.min and Math.max of NaN
\* are NaN, and a value that is not a number counts as NaN here.
clampUnchecked(value) ==
  IF value.t = "finite" THEN Num(clampAgents(Trunc(value.tenths)))
  ELSE IF value.t = "infinity" THEN Num(MAX_WORKERS)
  ELSE IF value.t = "-infinity" THEN Num(1)
  ELSE NotANumber

\* clampAgents(desired) for any value of the body: Number.isFinite is true
\* of finite numbers only.
clampDesired(value) ==
  IF value.t # "finite" THEN Num(1)
  ELSE Num(clampAgents(Trunc(value.tenths)))

\* !message?.trim()
IsBlank(message) == Trim(message) = <<>>

(***************************************************************************)
(* Helpers of the orchestrator.                                            *)
(***************************************************************************)

\* text.replace(/\s+/g, " "): every run of white space becomes one space.
RECURSIVE Collapse(_)
Collapse(s) ==
  IF Len(s) <= 1 THEN s
  ELSE LET half == Len(s) \div 2
           left == Collapse(SubSeq(s, 1, half))
           right == Collapse(SubSeq(s, half + 1, Len(s)))
       IN  IF IsSpace(left[Len(left)]) /\ IsSpace(right[1])
           THEN left \o Tail(right)
           ELSE left \o right

Ellipsis == "..."

\* truncate(text, maxLength)
truncate(text, maxLength) ==
  LET normalized == Trim(Collapse(text))
  IN  IF normalized = <<>> THEN <<>>
      ELSE IF Len(normalized) <= maxLength THEN normalized
      ELSE SubSeq(normalized, 1, maxLength - 1) \o <<Ellipsis>>

\* A thrown value: an Error with a message, a bare string, or anything else.
ErrorOf(message) == [t |-> "Error", message |-> message]

\* extractErrorMessage(error)
extractErrorMessage(error) ==
  IF error.t = "Error" THEN error.message
  ELSE IF error.t = "string" THEN error.message
  ELSE <<"Unknown error">>

\* The TypeError of reading a member of null.
NullTypeError == ErrorOf(<<"Cannot read properties of null">>)
\* The TypeError of reading a member of undefined.
UndefinedTypeError == ErrorOf(<<"Cannot read properties of undefined">>)
\* The TypeError of calling .trim on a value that is not a string.
TrimTypeError == ErrorOf(<<"trim is not a function">>)

\* A reply of the completion service: the call raised `error`, or it
\* returned `text`, whose "members" token denotes `members`.
Raised(error) == [raised |-> TRUE, error |-> error, text |-> <<>>, members |-> NoMembers]
Replied(text, members) ==
  [raised |-> FALSE, error |-> ErrorOf(<<>>), text |-> text, members |-> members]

\* parseJsonResponse(response, fallback)
parseJsonResponse(reply, fallback) == parseJsonFromModel(reply.text, reply.members, fallback)

\* value?.trim() for a member of a parsed reply: undefined stays undefined, a
\* string is trimmed; threw marks the TypeError of any other type.
OptTrim(value) ==
  IF value.t = "string" THEN [threw |-> FALSE, value |-> JsString(Trim(value.v))]
  ELSE IF value.t \in {"undefined", "null"} THEN [threw |-> FALSE, value |-> Undefined]
  ELSE [threw |-> TRUE, value |-> Undefined]

\* Truthiness of a member that is a string or undefined.
Truthy(value) == value.t = "string" /\ value.v # <<>>

\* value || fallback, as a string.
OrElse(value, fallback) == IF Truthy(value) THEN value.v ELSE fallback

\* formatWebFindings(findings): the empty string for no findings, otherwise
\* one numbered entry per finding with its title, its URL and its snippet
\* cut to 320 characters (findings carry no publication date here).
formatNoFindings(findings) == <<>>

formatWebFindings(findings) ==
  [k \in 1..Len(findings) |->
     [index |-> k, title |-> findings[k].title, url |-> findings[k].url,
      summary |-> truncate(findings[k].snippet, 320)]]

\* webSummary ? `Live web findings:\n${webSummary}` : "", the web section
\* of a worker, judge or finalizer prompt.
WebSection(webSummary) ==
  IF webSummary # <<>> THEN [header |-> "Live web findings:", summary |-> webSummary]
  ELSE [header |-> "", summary |-> <<>>]

NoPrompts == [worker |-> <<>>, judge |-> <<>>, finalizer |-> <<>>]

(***************************************************************************)
(* Rosters (lib/agentsConfig.ts) and agent generation.                     *)
(***************************************************************************)
Persona(id, name) == [id |-> id, name |-> name]

WORKER_AGENTS ==
  << Persona("strategist", "Strategist"), Persona("skeptic", "Skeptic"),
     Persona("ux", "UX"), Persona("systems", "Systems"),
     Persona("risk", "Risk"), Persona("storyteller", "Storyteller"),
     Persona("data", "Data"), Persona("simplifier", "Simplifier"),
     Persona("customer", "Customer"), Persona("growth", "Growth"),
     Persona("operations", "Operations"), Persona("ethics", "Ethics"),
     Persona("creative", "Creative"), Persona("pm", "PM"),
     Persona("research", "Research"), Persona("pragmatic-dev", "Pragmatic Dev") >>

JUDGE_AGENTS ==
  << Persona("rigor-judge", "Rigor Judge"), Persona("pragmatic-judge", "Pragmatic Judge"),
     Persona("user-value-judge", "User-Value Judge"), Persona("safety-judge", "Safety Judge") >>

\* The number of judges of the panel that the model runs (the panel of the
\* program has Len(JUDGE_AGENTS) judges).
JudgePanelSize == 2

getJudgeAgents == SubSeq(JUDGE_AGENTS, 1, Min(JudgePanelSize, Len(JUDGE_AGENTS)))

\* array.slice(0, count)
Slice0(array, count) ==
  IF count >= 0 THEN SubSeq(array, 1, Min(count, Len(array)))
  ELSE SubSeq(array, 1, Max(Len(array) + count, 0))

\* A selection that slices the roster by the raw count.
selectWorkersUnclamped(count) == Slice0(WORKER_AGENTS, count)

\* selectWorkers(count), for an integer count.
selectWorkers(count) ==
  LET safeCount == Max(1, Min(Min(count, MAX_WORKERS), Len(WORKER_AGENTS)))
  IN  Slice0(WORKER_AGENTS, safeCount)

\* crypto.randomUUID(): fresh on every call; the model names the value by
\* the call that drew it.
Uuid(prefix, i) == prefix \o ToString(i)

GeneratorFallback == JsonObject([agents |-> JsArray(<<>>)])

\* generateAgents({count, ...}) once the generator call has settled.
generateAgents(reply, count) ==
  LET json == parseJsonResponse(reply, GeneratorFallback)
      agents == Member(json, "agents")
  IN  IF reply.raised \/ json.kind = "null" THEN Slice0(WORKER_AGENTS, count)
      ELSE IF agents.t # "array" \/ Len(agents.v) = 0 THEN Slice0(WORKER_AGENTS, count)
      ELSE LET kept == Slice0(agents.v, count)
           IN  [i \in 1..Len(kept) |-> Persona(Uuid("agent-", i), kept[i].name)]

(***************************************************************************)
(* The stages of a turn (lib/orchestrator.ts).                             *)
(***************************************************************************)
WorkerFailed == <<"Worker failed to respond.">>
NoAnswer == <<"No answer provided.">>
NoReasoning == <<"No reasoning provided.">>

WorkerFallback ==
  JsonObject([answer |-> JsString(<<"Unable to provide an answer.">>),
              reasoning |-> JsString(<<"Worker model returned invalid response.">>)])

Candidate(id, worker, answer, reasoning) ==
  [id |-> id, workerId |-> worker.id, workerName |-> worker.name,
   initialAnswer |-> answer, initialReasoning |-> reasoning,
   answer |-> answer, reasoning |-> reasoning,
   discussionAnswer |-> Undefined, discussionReasoning |-> Undefined]

\* A worker stage whose failed call is not marked by the failure string.
runWorkerCandidateUnmarked(worker, i, reply) ==
  LET json == parseJsonResponse(reply, WorkerFallback)
      answer == OptTrim(Member(json, "answer"))
      reasoning == OptTrim(Member(json, "reasoning"))
  IN  IF reply.raised \/ json.kind = "null" \/ answer.threw \/ reasoning.threw
      THEN Candidate(Uuid("cand-", i), worker, NoAnswer, NoReasoning)
      ELSE Candidate(Uuid("cand-", i), worker,
                     OrElse(answer.value, NoAnswer), OrElse(reasoning.value, NoReasoning))

\* runWorkerCandidate for the i-th worker once its call has settled.
runWorkerCandidate(worker, i, reply) ==
  LET json == parseJsonResponse(reply, WorkerFallback)
      answer == OptTrim(Member(json, "answer"))
      reasoning == OptTrim(Member(json, "reasoning"))
      failed(error) == Candidate(Uuid("cand-", i), worker, WorkerFailed, extractErrorMessage(error))
  IN  IF reply.raised THEN failed(reply.error)
      ELSE IF json.kind = "null" THEN failed(NullTypeError)
      ELSE IF answer.threw \/ reasoning.threw THEN failed(TrimTypeError)
      ELSE Candidate(Uuid("cand-", i), worker,
                     OrElse(answer.value, NoAnswer), OrElse(reasoning.value, NoReasoning))

NoPeers == <<"Peers could not provide any recommendations.">>

\* candidates.filter((peer) => peer.id !== id)
RECURSIVE Peers(_, _)
Peers(cands, id) ==
  IF cands = <<>> THEN <<>>
  ELSE (IF Head(cands).id # id THEN <<Head(cands)>> ELSE <<>>) \o Peers(Tail(cands), id)

\* A digest that lists every candidate, the receiver included.
peerInsightsWithSelf(cands, i) ==
  [entries |-> [k \in 1..Len(cands) |->
                  [index |-> k, workerName |-> cands[k].workerName,
                   answer |-> cands[k].answer, reasoning |-> cands[k].reasoning]],
   sentence |-> <<>>]

\* peerInsights of the task of the i-th candidate: one numbered entry per
\* peer (joined by blank lines), or the fixed sentence when there is no peer
\* and the joined text is empty.
peerInsights(cands, i) ==
  LET peers == Peers(cands, cands[i].id)
  IN  [entries |-> [k \in 1..Len(peers) |->
                      [index |-> k, workerName |-> peers[k].workerName,
                       answer |-> peers[k].answer, reasoning |-> peers[k].reasoning]],
       sentence |-> IF peers = <<>> THEN NoPeers ELSE <<>>]

\* A discussion task that takes the revised text even when it is blank.
runDiscussionBlanking(candidate, reply) ==
  LET json == parseJsonResponse(reply,
                JsonObject([answer |-> JsString(candidate.answer),
                            reasoning |-> JsString(candidate.reasoning)]))
      answer == OptTrim(Member(json, "answer"))
      reasoning == OptTrim(Member(json, "reasoning"))
      failed(error) == [candidate EXCEPT !.discussionAnswer = JsString(candidate.answer),
                                         !.discussionReasoning = JsString(extractErrorMessage(error))]
  IN  IF reply.raised THEN failed(reply.error)
      ELSE IF json.kind = "null" THEN failed(NullTypeError)
      ELSE IF answer.threw \/ reasoning.threw THEN failed(TrimTypeError)
      ELSE [candidate EXCEPT !.discussionAnswer = answer.value,
                             !.discussionReasoning = reasoning.value,
                             !.answer = IF answer.value.t = "string" THEN answer.value.v
                                        ELSE candidate.answer,
                             !.reasoning = IF reasoning.value.t = "string" THEN reasoning.value.v
                                           ELSE candidate.reasoning]

\* A discussion task whose failure replaces the candidate's answer.
runDiscussionOverwriting(candidate, reply) ==
  LET json == parseJsonResponse(reply,
                JsonObject([answer |-> JsString(candidate.answer),
                            reasoning |-> JsString(candidate.reasoning)]))
      answer == OptTrim(Member(json, "answer"))
      reasoning == OptTrim(Member(json, "reasoning"))
  IN  IF reply.raised \/ json.kind = "null" \/ answer.threw \/ reasoning.threw
      THEN [candidate EXCEPT !.discussionAnswer = JsString(WorkerFailed),
                             !.discussionReasoning = JsString(extractErrorMessage(reply.error)),
                             !.answer = WorkerFailed]
      ELSE [candidate EXCEPT !.discussionAnswer = answer.value,
                             !.discussionReasoning = reasoning.value,
                             !.answer = OrElse(answer.value, candidate.answer),
                             !.reasoning = OrElse(reasoning.value, candidate.reasoning)]

\* A discussion task that also takes the revised text as the initial one.
runDiscussionRebasing(candidate, reply) ==
  LET json == parseJsonResponse(reply,
                JsonObject([answer |-> JsString(candidate.answer),
                            reasoning |-> JsString(candidate.reasoning)]))
      answer == OptTrim(Member(json, "answer"))
      reasoning == OptTrim(Member(json, "reasoning"))
      failed(error) == [candidate EXCEPT !.discussionAnswer = JsString(candidate.answer),
                                         !.discussionReasoning = JsString(extractErrorMessage(error))]
  IN  IF reply.raised THEN failed(reply.error)
      ELSE IF json.kind = "null" THEN failed(NullTypeError)
      ELSE IF answer.threw \/ reasoning.threw THEN failed(TrimTypeError)
      ELSE [candidate EXCEPT !.discussionAnswer = answer.value,
                             !.discussionReasoning = reasoning.value,
                             !.answer = OrElse(answer.value, candidate.answer),
                             !.reasoning = OrElse(reasoning.value, candidate.reasoning),
                             !.initialAnswer = OrElse(answer.value, candidate.answer),
                             !.initialReasoning = OrElse(reasoning.value, candidate.reasoning)]

\* One task of runDiscussionRound once its call has settled.
runDiscussion(candidate, reply) ==
  LET json == parseJsonResponse(reply,
                JsonObject([answer |-> JsString(candidate.answer),
                            reasoning |-> JsString(candidate.reasoning)]))
      answer == OptTrim(Member(json, "answer"))
      reasoning == OptTrim(Member(json, "reasoning"))
      failed(error) == [candidate EXCEPT !.discussionAnswer = JsString(candidate.answer),
                                         !.discussionReasoning = JsString(extractErrorMessage(error))]
  IN  IF reply.raised THEN failed(reply.error)
      ELSE IF json.kind = "null" THEN failed(NullTypeError)
      ELSE IF answer.threw \/ reasoning.threw THEN failed(TrimTypeError)
      ELSE [candidate EXCEPT !.discussionAnswer = answer.value,
                             !.discussionReasoning = reasoning.value,
                             !.answer = OrElse(answer.value, candidate.answer),
                             !.reasoning = OrElse(reasoning.value, candidate.reasoning)]

JudgeFallback ==
  JsonObject([ranked_ids |-> JsArray(<<>>), scores |-> JsObject(<<>>),
              notes |-> JsString(<<"Judge produced invalid JSON.">>)])

Vote(judge, rankedIds, scores, notes) ==
  [judgeId |-> judge.id, judgeName |-> judge.name,
   rankedIds |-> rankedIds, scores |-> scores, notes |-> notes]

\* A judge stage whose failed call leaves no note on the ballot.
runJudgeVoteSilent(judge, reply) ==
  LET json == parseJsonResponse(reply, JudgeFallback)
      notes == Member(json, "notes")
      ranked == Member(json, "ranked_ids")
      scores == Member(json, "scores")
  IN  IF reply.raised \/ json.kind = "null" THEN Vote(judge, <<>>, <<>>, JsString(<<>>))
      ELSE Vote(judge,
                IF ranked.t = "array" THEN ranked.v ELSE <<>>,
                IF scores.t = "object" THEN scores.v ELSE <<>>,
                IF notes.t \in {"string", "array", "object"} THEN notes ELSE JsString(<<>>))

\* runJudgeVote once the judge's call has settled.
runJudgeVote(judge, reply) ==
  LET json == parseJsonResponse(reply, JudgeFallback)
      notes == Member(json, "notes")
      ranked == Member(json, "ranked_ids")
      scores == Member(json, "scores")
      failed(error) == Vote(judge, <<>>, <<>>,
                            JsString(<<"Judge failed: ">> \o extractErrorMessage(error)))
  IN  IF reply.raised THEN failed(reply.error)
      ELSE IF json.kind = "null" THEN failed(NullTypeError)
      ELSE Vote(judge,
                IF ranked.t = "array" THEN ranked.v ELSE <<>>,
                IF scores.t = "object" THEN scores.v
                ELSE IF scores.t = "array"
                     THEN [i \in 1..Len(scores.v) |-> [key |-> IndexKeys[i], val |-> scores.v[i]]]
                     ELSE <<>>,
                IF notes.t \in {"string", "array", "object"} THEN notes ELSE JsString(<<>>))

FellBack == <<"Fell back to winning candidate because the finalizer returned invalid JSON.">>

\* candidates.find((c) => c.id === votingResult.winnerId) ?? candidates[0]
Winner(cands, result) ==
  IF \E i \in 1..Len(cands) : cands[i].id = result.winnerId
  THEN cands[CHOOSE i \in 1..Len(cands) :
               /\ cands[i].id = result.winnerId
               /\ \A j \in 1..(i - 1) : cands[j].id # result.winnerId]
  ELSE cands[1]

FINALIZER_RUNNER_UP_COUNT == 3

\* candidates.find((c) => c.id === id) for an id some candidate has.
FindCandidate(cands, id) ==
  cands[CHOOSE i \in 1..Len(cands) :
          /\ cands[i].id = id
          /\ \A j \in 1..(i - 1) : cands[j].id # id]

\* The entries of the runner-up list for ranking entries: each entry is
\* mapped to its candidate and the entries without a candidate are dropped.
RunnerUpEntries(cands, entries) ==
  LET isCandidate(entry) == \E i \in 1..Len(cands) : cands[i].id = entry.candidateId
      found == SelectSeq(entries, isCandidate)
  IN  [i \in 1..Len(found) |->
         [id |-> FindCandidate(cands, found[i].candidateId).id,
          workerName |-> FindCandidate(cands, found[i].candidateId).workerName,
          score |-> found[i].score,
          answer |-> truncate(FindCandidate(cands, found[i].candidateId).answer, 500)]]

\* The runner-ups of a ranking, with no limit on their number.
runnerUpsUncapped(cands, result) ==
  LET notWinner(entry) == entry.candidateId # Winner(cands, result).id
  IN  RunnerUpEntries(cands, SelectSeq(result.ranking, notWinner))

\* runFinalizer: the runner-ups listed in the finalizer prompt, from the
\* first entries of the ranking without the winner's.
runnerUps(cands, result) ==
  LET notWinner(entry) == entry.candidateId # Winner(cands, result).id
  IN  RunnerUpEntries(cands, Slice0(SelectSeq(result.ranking, notWinner),
                                    FINALIZER_RUNNER_UP_COUNT))

FinalizerFallback(userMessage, cands, result) ==
  JsonObject([final_answer |-> JsString(Winner(cands, result).answer),
              short_rationale |-> JsString(FellBack),
              summary_title |-> JsString(truncate(userMessage, 60))])

\* runFinalizer once its call has settled: the call's error propagates
\* (threw), otherwise the parsed payload is returned.
runFinalizer(userMessage, cands, result, reply) ==
  IF reply.raised
  THEN [threw |-> TRUE, error |-> reply.error, payload |-> JsonNull]
  ELSE [threw |-> FALSE, error |-> ErrorOf(<<>>),
        payload |-> parseJsonResponse(reply, FinalizerFallback(userMessage, cands, result))]

\* Truthiness of any JavaScript value.
TruthyAny(value) ==
  \/ value.t = "string" /\ value.v # <<>>
  \/ value.t = "number" /\ value.v # 0
  \/ value.t \in {"array", "object"}

\* The value runSwarmTurn returns for a payload that is not null.
SwarmTurnResult(userMessage, payload, cands, vs, result, findings) ==
  [finalAnswer |-> Member(payload, "final_answer"),
   finalReasoning |-> Member(payload, "short_rationale"),
   title |-> IF TruthyAny(Member(payload, "summary_title")) THEN Member(payload, "summary_title")
             ELSE IF truncate(userMessage, 64) # <<>> THEN JsString(truncate(userMessage, 64))
             ELSE JsString(<<"Untitled conversation">>),
   candidates |-> cands,
   votes |-> vs,
   votingResult |-> result,
   webFindings |-> IF Len(findings) > 0 THEN JsArray(findings) ELSE Undefined]

(***************************************************************************)
(* What the external services can answer.                                  *)
(***************************************************************************)
StrictText == <<"{", "members", "}">>
FencedText == <<Fence, "json", " ", "{", "members", "}", " ", Fence>>
ProseText == <<"Sure", ":", " ", "{", "members", "}", " ", "Done">>
GarbageText == <<"I", " ", "cannot">>
NullText == <<"null">>
EmptyObjectText == <<"{", "}">>

Boom == ErrorOf(<<"Request failed">>)
\* An Error constructed without a message: its message is the empty string.
Bare == ErrorOf(<<>>)

GeneratorReplies ==
  { Raised(Boom),
    Replied(StrictText,
            [agents |-> JsArray([i \in 1..MaxRequested |->
                                   [name |-> "Generated " \o ToString(i)]])]) }

Finding == [title |-> <<"News">>, url |-> <<"https://example.com">>, snippet |-> <<"Breaking">>]

\* runWebSearch settles with a list of findings; the orchestrator also
\* guards against its raising.
SearchOutcomes ==
  { [raised |-> TRUE, findings |-> <<>>],
    [raised |-> FALSE, findings |-> <<>>],
    [raised |-> FALSE, findings |-> <<Finding>>] }

\* The first task of a stage ranges over every kind of reply; the other
\* tasks of the stage either raise or reply well-formed JSON.
WorkerReplies(i) ==
  { Raised(IF i > 1 THEN Bare ELSE Boom) } \cup
  (IF i > 1 THEN {}
   ELSE { Replied(GarbageText, NoMembers),
          Replied(NullText, NoMembers),
          Replied(FencedText, [answer |-> JsString(<<" ">>)]) }) \cup
  { Replied(StrictText, [answer |-> JsString(<<"proposal " \o ToString(i)>>),
                         reasoning |-> JsString(<<"because " \o ToString(i)>>)]) }

DiscussionReplies(i) ==
  { Raised(Boom) } \cup
  (IF i > 1 THEN {}
   ELSE { Replied(GarbageText, NoMembers),
          Replied(ProseText, [answer |-> JsString(<<" ">>),
                              reasoning |-> JsString(<<"second thoughts">>)]) }) \cup
  { Replied(StrictText, [answer |-> JsString(<<"revised " \o ToString(i), " ">>),
                         reasoning |-> JsString(<<"on reflection " \o ToString(i)>>)]) }

Ids(cands) == [i \in 1..Len(cands) |-> cands[i].id]

RECURSIVE Reverse(_)
Reverse(s) == IF s = <<>> THEN <<>> ELSE Reverse(Tail(s)) \o <<Head(s)>>

JudgeReplies(j, cands) ==
  { Raised(Boom) } \cup
  (IF j > 1 THEN {}
   ELSE { Replied(GarbageText, NoMembers),
          Replied(NullText, NoMembers),
          Replied(StrictText, [ranked_ids |-> JsArray(Ids(cands)),
                               scores |-> JsObject(<<>>),
                               notes |-> JsString(<<"in order">>)]) }) \cup
  { Replied(FencedText, [ranked_ids |-> JsArray(<<"ghost">> \o Reverse(Ids(cands))),
                         scores |-> JsObject(<<[key |-> cands[Len(cands)].id, val |-> Num(2)],
                                               [key |-> "ghost", val |-> Num(9)]>>)]) }

FinalizerReplies ==
  { Raised(Boom),
    Replied(GarbageText, NoMembers),
    Replied(NullText, NoMembers),
    Replied(EmptyObjectText, NoMembers),
    Replied(StrictText, [final_answer |-> JsString(<<"Winner answer">>),
                         short_rationale |-> JsString(<<"It won">>),
                         summary_title |-> JsString(<<"Launch Plan">>)]) }

(***************************************************************************)
(* The chat request and the state of a turn.                               *)
(***************************************************************************)
\* A question of 80 symbols with leading, trailing and doubled white space:
\* 69 symbols once normalised, longer than both title limits.
Question == [i \in 1..80 |-> IF i % 8 \in {0, 1} THEN " " ELSE "x"]

Messages == {<<>>, <<" ", " ">>, Question}

Bodies ==
  [message : Messages,
   agentsCount : (1..MaxRequested) \cup {MAX_WORKERS},
   mode : {"fast", "reasoning"},
   discussionEnabled : BOOLEAN,
   webBrowsingEnabled : BOOLEAN]

NoCalls == [generator |-> 0, search |-> 0, worker |-> 0, discussion |-> 0,
            judge |-> 0, finalizer |-> 0]

NoReply == Replied(<<>>, NoMembers)
NoResponse == [status |-> 0, error |-> <<>>, result |-> <<>>]

\* A task of a Promise.all: the call is in flight until it settles with a
\* reply, and then holds the value its async function resolved with.
InFlight == [settled |-> FALSE, reply |-> NoReply, value |-> <<>>]
Settled(reply, value) == [settled |-> TRUE, reply |-> reply, value |-> value]
\* A join that resolves as soon as one task has settled.
AnySettled(tasks) == \E i \in 1..Len(tasks) : tasks[i].settled
\* A join that also waits for a web search, whether or not one was issued.
AllSettledAndSearched(tasks) ==
  /\ \A i \in 1..Len(tasks) : tasks[i].settled
  /\ search # <<>>
AllSettled(tasks) == \A i \in 1..Len(tasks) : tasks[i].settled
\* A join that lists the values last task first.
ValuesLastFirst(tasks) == [i \in 1..Len(tasks) |-> tasks[Len(tasks) + 1 - i].value]
Values(tasks) == [i \in 1..Len(tasks) |-> tasks[i].value]

Idle ==
  /\ body = [message |-> <<>>, agentsCount |-> 0, mode |-> "fast",
             discussionEnabled |-> FALSE, webBrowsingEnabled |-> FALSE]
  /\ calls = NoCalls
  /\ generator = <<>>
  /\ workers = <<>>
  /\ search = <<>>
  /\ webFindings = <<>>
  /\ proposals = <<>>
  /\ revisions = <<>>
  /\ ballots = <<>>
  /\ finalizer = <<>>
  /\ response = NoResponse
  /\ prompts = NoPrompts

Init ==
  /\ pc = "request"
  /\ body \in Bodies
  /\ calls = NoCalls
  /\ generator = <<>>
  /\ workers = <<>>
  /\ search = <<>>
  /\ webFindings = <<>>
  /\ proposals = <<>>
  /\ revisions = <<>>
  /\ ballots = <<>>
  /\ candidates = <<>>
  /\ votes = <<>>
  /\ votingResult = NoVotingResult
  /\ finalizer = <<>>
  /\ response = NoResponse
  /\ prompts = NoPrompts
  /\ input = <<>>
  /\ output = <<>>

safeAgentsCount == clampAgents(body.agentsCount)

\* Issuing n calls and one of them a second time.
IssueWithRetry(service, n) == [calls EXCEPT ![service] = @ + n + 1]

Issue(service, n) == [calls EXCEPT ![service] = @ + n]

AllInFlight(n) == [i \in 1..n |-> InFlight]

\* The tasks of runDiscussionRound over the candidate list cands: each
\* builds its peer digest from cands before it issues its call.
DiscussionTasks(cands) ==
  [i \in 1..Len(cands) |->
     [settled |-> FALSE, reply |-> NoReply, value |-> <<>>,
      digest |-> peerInsights(cands, i)]]

Respond(status, error, result) == [status |-> status, error |-> error, result |-> result]

\* The catch-all of the chat route: any error of the turn becomes a 500.
RouteError == Respond(500, <<"Unable to complete chat request.">>, <<>>)

\* The error runSwarmTurn raises for an empty candidate list.
NoCandidatesError == ErrorOf(<<"No worker candidates were generated.">>)

(***************************************************************************)
(* The chat route (app/api/chat/route.ts) up to the call of runSwarmTurn.  *)
(***************************************************************************)
POST ==
  /\ pc = "request"
  /\ IF IsBlank(body.message)
     THEN /\ pc' = "rejected"
          /\ response' = Respond(400, <<"Message is required.">>, <<>>)
          /\ body' = body
     ELSE IF OverBudget(safeAgentsCount, body.mode, body.discussionEnabled)
     THEN /\ pc' = "rejected"
          /\ response' = Respond(400, <<"This swarm configuration will likely exceed the current hosting budget">>, <<>>)
          /\ body' = body
     ELSE /\ pc' = "admitted"
          /\ response' = response
          /\ body' = [body EXCEPT !.agentsCount = safeAgentsCount]
  /\ UNCHANGED <<calls, generator, workers, search, webFindings, proposals,
                 revisions, ballots, candidates, votes, votingResult, finalizer,
                 prompts, input, output>>

(***************************************************************************)
(* runSwarmTurn.                                                           *)
(***************************************************************************)

\* Entry: the message check, then generateAgents issues the generator call.
StartTurn ==
  /\ pc = "admitted"
  /\ IF IsBlank(body.message)
     THEN /\ pc' = "failed"
          /\ response' = RouteError
          /\ output' = ErrorOf(<<"Message cannot be empty.">>)
          /\ UNCHANGED <<calls, generator>>
     ELSE /\ pc' = "generating"
          /\ generator' = AllInFlight(1)
          /\ calls' = Issue("generator", 1)
          /\ UNCHANGED <<response, output>>
  /\ UNCHANGED <<body, workers, search, webFindings, proposals, revisions, ballots,
                 candidates, votes, votingResult, finalizer,
                 prompts, input>>

\* workers.map(runWorkerCandidate): every worker call is issued at once.
StartProposals(ws, findings) ==
  /\ pc' = "proposal"
  /\ proposals' = AllInFlight(Len(ws))
  /\ calls' = Issue("worker", Len(ws))
  /\ prompts' = [prompts EXCEPT
                   !.worker = [i \in 1..Len(ws) |-> WebSection(formatWebFindings(findings))]]

\* The generator call settles; then the web search is issued when enabled,
\* and otherwise the proposal stage starts.
GeneratorSettles ==
  /\ pc = "generating"
  /\ \E reply \in GeneratorReplies :
       /\ generator' = <<Settled(reply, <<>>)>>
       /\ workers' = generateAgents(reply, body.agentsCount)
  /\ IF body.webBrowsingEnabled
     THEN /\ pc' = "searching"
          /\ search' = AllInFlight(1)
          /\ calls' = Issue("search", 1)
          /\ UNCHANGED <<proposals, prompts>>
     ELSE /\ StartProposals(workers', webFindings)
          /\ search' = search
  /\ UNCHANGED <<body, webFindings, revisions, ballots, candidates, votes,
                 votingResult, finalizer, response,
                 input, output>>

\* A search whose raise is not caught: it ends the turn with an error.
SearchSettlesFatal ==
  /\ pc = "searching"
  /\ \E outcome \in SearchOutcomes :
       /\ search' = <<Settled(outcome, <<>>)>>
       /\ webFindings' = IF outcome.raised THEN <<>> ELSE outcome.findings
       /\ IF outcome.raised
          THEN /\ pc' = "failed"
               /\ response' = RouteError
               /\ UNCHANGED <<proposals, calls, prompts>>
          ELSE /\ StartProposals(workers, webFindings')
               /\ response' = response
  /\ UNCHANGED <<body, generator, workers, revisions, ballots, candidates, votes,
                 votingResult, finalizer, input, output>>

\* The search settles (a raise is caught and leaves no findings); the
\* proposal stage starts.
SearchSettles ==
  /\ pc = "searching"
  /\ \E outcome \in SearchOutcomes :
       /\ search' = <<Settled(outcome, <<>>)>>
       /\ webFindings' = IF outcome.raised THEN <<>> ELSE outcome.findings
  /\ StartProposals(workers, webFindings')
  /\ UNCHANGED <<body, generator, workers, revisions, ballots, candidates, votes,
                 votingResult, finalizer, response,
                 input, output>>

\* One worker call settles, in any order.
WorkerSettles ==
  /\ pc = "proposal"
  /\ \E i \in 1..Len(proposals) : \E reply \in WorkerReplies(i) :
       /\ ~proposals[i].settled
       /\ proposals' = [proposals EXCEPT
                          ![i] = Settled(reply, runWorkerCandidate(workers[i], i, reply))]
  /\ UNCHANGED <<pc, body, calls, generator, workers, search, webFindings, revisions,
                 ballots, candidates, votes, votingResult, finalizer, response,
                 prompts, input, output>>

\* judges.map(runJudgeVote): every judge call is issued at once.
StartJudging ==
  /\ pc' = "judging"
  /\ ballots' = AllInFlight(Len(getJudgeAgents))
  /\ calls' = Issue("judge", Len(getJudgeAgents))
  /\ prompts' = [prompts EXCEPT
                   !.judge = [j \in 1..Len(getJudgeAgents) |->
                                WebSection(formatWebFindings(webFindings))]]

\* A join of the proposals that lets an empty candidate list through.
ProposalsJoinLenient ==
  /\ pc = "proposal"
  /\ AllSettled(proposals)
  /\ candidates' = Values(proposals)
  /\ IF body.discussionEnabled
     THEN /\ pc' = "discussion"
          /\ revisions' = DiscussionTasks(candidates')
          /\ calls' = Issue("discussion", Len(proposals))
          /\ UNCHANGED <<ballots, response, prompts, output>>
     ELSE /\ StartJudging
          /\ UNCHANGED <<revisions, response, output>>
  /\ UNCHANGED <<body, generator, workers, search, webFindings, proposals, votes,
                 votingResult, finalizer,
                 input>>

\* Promise.all of the proposals resolves: the candidate list is assigned,
\* an empty one raises, and the next stage issues its calls.
ProposalsJoin ==
  /\ pc = "proposal"
  /\ AllSettled(proposals)
  /\ candidates' = Values(proposals)
  /\ IF Len(proposals) = 0
     THEN /\ pc' = "failed"
          /\ response' = RouteError
          /\ output' = NoCandidatesError
          /\ UNCHANGED <<calls, revisions, ballots, prompts>>
     ELSE IF body.discussionEnabled
     THEN /\ pc' = "discussion"
          /\ revisions' = DiscussionTasks(candidates')
          /\ calls' = Issue("discussion", Len(proposals))
          /\ UNCHANGED <<ballots, response, prompts, output>>
     ELSE /\ StartJudging
          /\ UNCHANGED <<revisions, response, output>>
  /\ UNCHANGED <<body, generator, workers, search, webFindings, proposals, votes,
                 votingResult, finalizer,
                 input>>

\* One discussion call settles, in any order; its task reads the candidate
\* list of the proposal stage.
DiscussionSettles ==
  /\ pc = "discussion"
  /\ \E i \in 1..Len(revisions) : \E reply \in DiscussionReplies(i) :
       /\ ~revisions[i].settled
       /\ revisions' = [revisions EXCEPT
                          ![i] = [@ EXCEPT !.settled = TRUE,
                                           !.reply = reply,
                                           !.value = runDiscussion(candidates[i], reply)]]
  /\ UNCHANGED <<pc, body, calls, generator, workers, search, webFindings, proposals,
                 ballots, candidates, votes, votingResult, finalizer, response,
                 prompts, input, output>>

\* Promise.all of the discussion round resolves.
DiscussionJoin ==
  /\ pc = "discussion"
  /\ AllSettled(revisions)
  /\ candidates' = Values(revisions)
  /\ StartJudging
  /\ UNCHANGED <<body, generator, workers, search, webFindings, proposals, revisions,
                 votes, votingResult, finalizer, response,
                 input, output>>

\* One judge call settles, in any order.
JudgeSettles ==
  /\ pc = "judging"
  /\ \E j \in 1..Len(ballots) : \E reply \in JudgeReplies(j, candidates) :
       /\ ~ballots[j].settled
       /\ ballots' = [ballots EXCEPT
                        ![j] = Settled(reply, runJudgeVote(getJudgeAgents[j], reply))]
  /\ UNCHANGED <<pc, body, calls, generator, workers, search, webFindings, proposals,
                 revisions, candidates, votes, votingResult, finalizer, response,
                 prompts, input, output>>

\* A join of the ballots that also reverses the candidate list.
JudgingJoinReordering ==
  /\ pc = "judging"
  /\ AllSettled(ballots)
  /\ votes' = Values(ballots)
  /\ votingResult' = aggregateVotes(votes', candidates)
  /\ candidates' = [i \in 1..Len(candidates) |-> candidates[Len(candidates) + 1 - i]]
  /\ IF votingResult'.threw
     THEN /\ pc' = "failed"
          /\ response' = RouteError
          /\ output' = UndefinedTypeError
          /\ UNCHANGED <<calls, finalizer, prompts>>
     ELSE /\ pc' = "finalizing"
          /\ finalizer' = AllInFlight(1)
          /\ calls' = Issue("finalizer", 1)
          /\ prompts' = [prompts EXCEPT
                           !.finalizer = <<WebSection(formatWebFindings(webFindings))>>]
          /\ UNCHANGED <<response, output>>
  /\ UNCHANGED <<body, generator, workers, search, webFindings, proposals, revisions,
                 ballots,
                 input>>

\* Promise.all of the votes resolves: aggregation, then the finalizer call
\* is issued.
JudgingJoin ==
  /\ pc = "judging"
  /\ AllSettled(ballots)
  /\ votes' = Values(ballots)
  /\ votingResult' = aggregateVotes(votes', candidates)
  /\ IF votingResult'.threw
     THEN /\ pc' = "failed"
          /\ response' = RouteError
          /\ output' = UndefinedTypeError
          /\ UNCHANGED <<calls, finalizer, prompts>>
     ELSE /\ pc' = "finalizing"
          /\ finalizer' = AllInFlight(1)
          /\ calls' = Issue("finalizer", 1)
          /\ prompts' = [prompts EXCEPT
                           !.finalizer = <<WebSection(formatWebFindings(webFindings))>>]
          /\ UNCHANGED <<response, output>>
  /\ UNCHANGED <<body, generator, workers, search, webFindings, proposals, revisions,
                 ballots, candidates,
                 input>>

\* The finalizer call settles and runSwarmTurn returns, or an error reaches
\* the route.
FinalizerSettles ==
  /\ pc = "finalizing"
  /\ \E reply \in FinalizerReplies :
       LET final == runFinalizer(body.message, candidates, votingResult, reply)
       IN  /\ finalizer' = <<Settled(reply, <<>>)>>
           /\ IF final.threw \/ final.payload.kind = "null"
              THEN /\ pc' = "failed"
                   /\ response' = RouteError
                   /\ output' = IF final.threw THEN final.error ELSE NullTypeError
              ELSE /\ pc' = "done"
                   /\ output' = output
                   /\ response' = Respond(200, <<>>,
                                    SwarmTurnResult(body.message, final.payload, candidates,
                                                    votes, votingResult, webFindings))
  /\ UNCHANGED <<body, calls, generator, workers, search, webFindings, proposals,
                 revisions, ballots, candidates, votes, votingResult,
                 prompts, input>>

Next ==
  \/ POST
  \/ StartTurn
  \/ GeneratorSettles
  \/ SearchSettles
  \/ WorkerSettles
  \/ ProposalsJoin
  \/ DiscussionSettles
  \/ DiscussionJoin
  \/ JudgeSettles
  \/ JudgingJoin
  \/ FinalizerSettles

Spec == Init /\ [][Next]_vars

\* A step of the request is possible: the route or the entry of the turn
\* runs, a call that is in flight can settle, or the join of a stage whose
\* calls have all settled can resolve.
Unsettled(tasks) == \E i \in 1..Len(tasks) : ~tasks[i].settled

StepPossible ==
  \/ pc \in {"request", "admitted", "generating", "searching", "finalizing"}
  \/ pc = "proposal" /\ (Unsettled(proposals) \/ AllSettled(proposals))
  \/ pc = "discussion" /\ (Unsettled(revisions) \/ AllSettled(revisions))
  \/ pc = "judging" /\ (Unsettled(ballots) \/ AllSettled(ballots))

\* A turn in which every call that was issued eventually settles, and in
\* which the synchronous code after an await runs once the await resolves:
\* weak fairness of Next, with the condition under which a step is possible
\* written out.
SpecLive == Init /\ [][Next]_vars /\ ([]<>~StepPossible \/ []<><<Next>>_vars)

(***************************************************************************)
(* runSwarmTurn called on its own, without the route in front of it: the   *)
(* count of agents is whatever the caller passes, zero included.           *)
(***************************************************************************)
TurnParams ==
  [message : {<<>>, Question},
   agentsCount : {0, 1},
   mode : {"fast"},
   discussionEnabled : BOOLEAN,
   webBrowsingEnabled : BOOLEAN]

InitTurn ==
  /\ pc = "admitted"
  /\ body \in TurnParams
  /\ calls = NoCalls
  /\ generator = <<>>
  /\ workers = <<>>
  /\ search = <<>>
  /\ webFindings = <<>>
  /\ proposals = <<>>
  /\ revisions = <<>>
  /\ ballots = <<>>
  /\ finalizer = <<>>
  /\ response = NoResponse
  /\ prompts = NoPrompts
  /\ candidates = <<>>
  /\ votes = <<>>
  /\ votingResult = NoVotingResult
  /\ input = <<>>
  /\ output = <<>>

NextTurn ==
  \/ StartTurn
  \/ GeneratorSettles
  \/ SearchSettles
  \/ WorkerSettles
  \/ ProposalsJoin
  \/ DiscussionSettles
  \/ DiscussionJoin
  \/ JudgeSettles
  \/ JudgingJoin
  \/ FinalizerSettles

SpecTurn == InitTurn /\ [][NextTurn]_vars

(***************************************************************************)
(* aggregateVotes on its own: any vote list over any candidate list.       *)
(***************************************************************************)
CandidateIds == {"a", "b", "1"}
BallotIds == {"a", "b"} \cup ProtoKeys

SeqsUpTo(S, n) == UNION {[1..k -> S] : k \in 0..n}

IsInjective(s) == \A i, j \in 1..Len(s) : s[i] = s[j] => i = j

CandidateLists ==
  { [i \in 1..Len(ids) |->
       Candidate(ids[i], Persona("worker-" \o ids[i], "Worker " \o ids[i]),
                 <<"Answer " \o ids[i]>>, <<"Reasoning " \o ids[i]>>)] :
    ids \in {s \in SeqsUpTo(CandidateIds, MaxCands) : IsInjective(s)} }

ScoreMaps ==
  { <<[key |-> "b", val |-> Num(2)]>>,
    <<[key |-> "toString", val |-> Num(2)]>>,
    <<[key |-> "a", val |-> NotANumber]>> }

TestJudge == Persona("judge-1", "Judge 1")

\* The rankings of a ballot: every list of up to MaxRanked distinct ids, and
\* one list that names a candidate twice.
Rankings ==
  {r \in SeqsUpTo(BallotIds, MaxRanked) : IsInjective(r)} \cup {<<"a", "a">>}

\* Every ranking without scores, and two rankings with each of the score
\* maps.
Ballots ==
  { Vote(TestJudge, r, <<>>, JsString(<<>>)) : r \in Rankings } \cup
  { Vote(TestJudge, r, sc, JsString(<<>>)) : r \in {<<>>, <<"b", "a">>}, sc \in ScoreMaps }

InitAgg ==
  /\ pc = "votes"
  /\ Idle
  /\ candidates \in CandidateLists
  /\ votes = <<>>
  /\ votingResult = NoVotingResult
  /\ input = <<>>
  /\ output = <<>>

\* The caller adds one more ballot to the vote list.
AddVote ==
  /\ pc = "votes"
  /\ Len(votes) < MaxVotes
  /\ \E ballot \in Ballots : votes' = Append(votes, ballot)
  /\ UNCHANGED <<pc, body, calls, generator, workers, search, webFindings, proposals,
                 revisions, ballots, candidates, votingResult, finalizer, response,
                 prompts, input, output>>

\* An aggregation that filters each ballot's ranking in place.
AggregateInPlace ==
  /\ pc = "votes"
  /\ pc' = "aggregated"
  /\ votingResult' = aggregateVotes(votes, candidates)
  /\ votes' = [v \in 1..Len(votes) |->
                 [votes[v] EXCEPT !.rankedIds = FilterKnown(@, InitialTotals(candidates))]]
  /\ UNCHANGED <<body, calls, generator, workers, search, webFindings, proposals,
                 revisions, ballots, candidates, finalizer, response,
                 prompts, input, output>>

\* aggregateVotes(votes, candidates): the function reads its arguments and
\* builds a fresh totals object and a fresh ranking array.
Aggregate ==
  /\ pc = "votes"
  /\ pc' = "aggregated"
  /\ votingResult' = aggregateVotes(votes, candidates)
  /\ UNCHANGED <<body, calls, generator, workers, search, webFindings, proposals,
                 revisions, ballots, candidates, votes, finalizer, response,
                 prompts, input, output>>

\* The caller runs aggregateVotes(votes, candidates) a second time, on the
\* same two lists.
Reaggregate ==
  /\ pc = "aggregated"
  /\ pc' = "reaggregated"
  /\ votingResult' = aggregateVotes(votes, candidates)
  /\ UNCHANGED <<body, calls, generator, workers, search, webFindings, proposals,
                 revisions, ballots, candidates, votes, finalizer, response,
                 prompts, input, output>>

NextAgg == AddVote \/ Aggregate \/ Reaggregate

SpecAgg == InitAgg /\ [][NextAgg]_vars

(***************************************************************************)
(* Properties of a turn (checked under Spec).                              *)
(***************************************************************************)

\* The proposal stage has been joined.
ProposalsJoined == pc \in {"discussion", "judging", "finalizing", "done", "failed"}

\* The votes have been joined and aggregated.
VotesJoined == pc \in {"finalizing", "done", "failed"}

\* No JSON value can be extracted from the reply's text.
Unparseable(reply) ==
  /\ parseJsonResponse(reply, JsonNull) = JsonNull
  /\ parseJsonResponse(reply, JsonNumber) = JsonNumber

\* C1, as the claim states it: in the result of a turn, the candidate of
\* every worker whose call raised has the failure string as its answer.
FailedWorkerAnswerIsPlaceholder ==
  pc = "done" =>
    \A i \in 1..Len(proposals) :
      proposals[i].reply.raised => response.result.candidates[i].answer = WorkerFailed

\* C1, amended: whichever worker calls raise, the proposal stage never aborts
\* the turn and yields exactly one candidate per selected worker, in roster
\* order; the candidate of a worker whose call raised has the failure string
\* as its initialAnswer, and as its answer unless the discussion round has
\* replaced the answer by that candidate's revision. The result of the turn
\* carries this candidate list.
WorkerFailuresKept ==
  ProposalsJoined =>
    /\ workers # <<>>
    /\ Len(candidates) = Len(workers)
    /\ \A i \in 1..Len(workers) :
         /\ candidates[i].workerId = workers[i].id
         /\ proposals[i].reply.raised =>
              /\ candidates[i].initialAnswer = WorkerFailed
              /\ candidates[i].answer # WorkerFailed =>
                   /\ pc # "discussion"
                   /\ body.discussionEnabled
                   /\ ~revisions[i].reply.raised
                   /\ candidates[i].discussionAnswer = JsString(candidates[i].answer)
    /\ pc = "failed" => finalizer # <<>>
    /\ pc = "done" => response.status = 200 /\ response.result.candidates = candidates

\* A finished turn of two workers in which the first worker's call raised and
\* the second worker's did not.
WorkerFailureWitness ==
  /\ pc = "done"
  /\ Len(workers) = 2
  /\ proposals[1].reply.raised
  /\ ~proposals[2].reply.raised
  /\ response.result.candidates[1].answer = WorkerFailed

\* C2: once the votes are joined there is exactly one ballot per judge of the
\* panel, in panel order; the ballot of a judge whose call raised, or whose
\* text yields no JSON value, has no ranked ids, no scores and a non-empty
\* note; aggregation has produced a complete voting result (a winner among
\* the candidates, one total and one ranking entry per candidate), and the
\* result of the turn carries these ballots.
JudgeFailuresAbstain ==
  VotesJoined =>
    /\ Len(votes) = Len(getJudgeAgents)
    /\ \A j \in 1..Len(votes) :
         /\ votes[j].judgeId = getJudgeAgents[j].id
         /\ (ballots[j].reply.raised \/ Unparseable(ballots[j].reply)) =>
              /\ votes[j].rankedIds = <<>>
              /\ votes[j].scores = <<>>
              /\ votes[j].notes.t = "string"
              /\ votes[j].notes.v # <<>>
    /\ ~votingResult.threw
    /\ \E i \in 1..Len(candidates) : candidates[i].id = votingResult.winnerId
    /\ Len(votingResult.totals) = Len(candidates)
    /\ Len(votingResult.ranking) = Len(candidates)
    /\ pc = "done" => response.result.votes = votes /\ response.result.votingResult = votingResult

\* A finished turn in which the first judge replied text that is no JSON and
\* the second judge's call raised.
JudgeFailureWitness ==
  /\ pc = "done"
  /\ ~ballots[1].reply.raised
  /\ Unparseable(ballots[1].reply)
  /\ ballots[2].reply.raised
  /\ response.result.votes[1].notes.v # <<>>

\* C3, as the claim states it: when the finalizer's call raises, the turn
\* still returns a result whose finalAnswer is present.
FinalizerFailureCaught ==
  (finalizer # <<>> /\ finalizer[1].settled /\ finalizer[1].reply.raised) =>
    /\ pc = "done"
    /\ response.status = 200
    /\ response.result.finalAnswer.t = "string"

\* C4, as the claim states it: when the finalizer's call returns text that
\* does not parse to a JSON object, the result's finalAnswer is the current
\* answer of the winning candidate, finalReasoning is the fixed fallback
\* phrase and the title is the truncated question.
FinalizerFallsBack ==
  ( /\ finalizer # <<>>
    /\ finalizer[1].settled
    /\ ~finalizer[1].reply.raised
    /\ parseJsonResponse(finalizer[1].reply, JsonNull).kind # "object" ) =>
    /\ pc = "done"
    /\ response.result.finalAnswer = JsString(Winner(candidates, votingResult).answer)
    /\ response.result.finalReasoning = JsString(FellBack)
    /\ response.result.title = JsString(truncate(body.message, 60))

\* C5: the stages of a turn run strictly in sequence. A discussion call is
\* issued only when every proposal call has settled; a judge call only when
\* every proposal call and, with discussion enabled, every discussion call
\* has settled; the votes are aggregated only when every judge call has
\* settled; the finalizer call is issued only in the step that aggregates.
StagesInSequence ==
  [][ /\ calls'.discussion > calls.discussion =>
           /\ proposals # <<>>
           /\ \A i \in 1..Len(proposals) : proposals[i].settled
      /\ calls'.judge > calls.judge =>
           /\ proposals # <<>>
           /\ \A i \in 1..Len(proposals) : proposals[i].settled
           /\ body.discussionEnabled =>
                /\ Len(revisions) = Len(proposals)
                /\ \A i \in 1..Len(revisions) : revisions[i].settled
      /\ votingResult' # votingResult =>
           /\ Len(ballots) = Len(getJudgeAgents)
           /\ \A j \in 1..Len(ballots) : ballots[j].settled
           /\ calls.judge = Len(getJudgeAgents)
      /\ calls'.finalizer > calls.finalizer =>
           /\ votingResult' # votingResult
           /\ votingResult' = aggregateVotes(votes', candidates')
    ]_vars

\* A turn with discussion enabled in which every stage has issued its calls.
StagesWitness ==
  /\ pc = "finalizing"
  /\ calls.worker = 2
  /\ calls.discussion = 2
  /\ calls.judge = Len(getJudgeAgents)
  /\ calls.finalizer = 1

\* C6: a request whose estimate (clamped agent count x per-agent cost of the
\* mode x discussion multiplier) exceeds the configured ceiling is rejected
\* with status 400, and no call is ever issued to the completion service or
\* to web search.
BudgetGate ==
  LET agents == Min(Max(1, body.agentsCount), MAX_WORKERS)
      perAgent == IF body.mode = "reasoning" THEN REASONING_AGENT_COST_CENTIS
                  ELSE FAST_AGENT_COST_CENTIS
      factor == IF body.discussionEnabled THEN DISCUSSION_TIME_MULTIPLIER_CENTIS ELSE 100
  IN  (pc # "request" /\ agents * perAgent * factor > SWARM_RUNTIME_BUDGET_SECONDS * 10000) =>
        /\ pc = "rejected"
        /\ response.status = 400
        /\ calls = NoCalls
        /\ generator = <<>> /\ search = <<>> /\ proposals = <<>>
        /\ revisions = <<>> /\ ballots = <<>> /\ finalizer = <<>>

\* The request of 64 agents in reasoning mode with discussion has been
\* rejected.
BudgetWitness ==
  /\ pc = "rejected"
  /\ ~IsBlank(body.message)
  /\ body.agentsCount = MAX_WORKERS
  /\ body.mode = "reasoning"
  /\ body.discussionEnabled
  /\ response.status = 400

(***************************************************************************)
(* Properties of aggregateVotes (checked under SpecAgg).                   *)
(***************************************************************************)
CandidateIdSet == {candidates[i].id : i \in 1..Len(candidates)}

Aggregated == pc = "aggregated" /\ candidates # <<>>

\* The ids of a list that belong to the set S, in order.
RECURSIVE Keep(_, _)
Keep(ids, S) ==
  IF ids = <<>> THEN <<>>
  ELSE (IF Head(ids) \in S THEN <<Head(ids)>> ELSE <<>>) \o Keep(Tail(ids), S)

\* The entries of a score map whose key belongs to the set S, in order.
RECURSIVE KeepEntries(_, _)
KeepEntries(entries, S) ==
  IF entries = <<>> THEN <<>>
  ELSE (IF Head(entries).key \in S THEN <<Head(entries)>> ELSE <<>>)
       \o KeepEntries(Tail(entries), S)

RECURSIVE SumSeq(_)
SumSeq(ns) == IF ns = <<>> THEN 0 ELSE Head(ns) + SumSeq(Tail(ns))

\* The rank points a ballot gives to candidate c: max(k - i - 1, 0) for each
\* 0-based position i of c in the ranking filtered to candidate ids, k being
\* the filtered length.
RankPoints(vote, c) ==
  LET ranked == Keep(vote.rankedIds, CandidateIdSet)
  IN  SumSeq([i \in 1..Len(ranked) |->
                IF ranked[i] = c THEN Max(Len(ranked) - (i - 1) - 1, 0) ELSE 0])

\* The finite score a ballot gives to candidate c.
ScorePoints(vote, c) ==
  SumSeq([i \in 1..Len(vote.scores) |->
            IF vote.scores[i].key = c /\ vote.scores[i].val.num
            THEN vote.scores[i].val.n ELSE 0])

ExpectedTotal(c) ==
  SumSeq([v \in 1..Len(votes) |-> RankPoints(votes[v], c) + ScorePoints(votes[v], c)])

\* C7, as the claim states it: for a non-empty candidate list, totals has
\* exactly one entry per candidate id and no other key; the ranking holds
\* every candidate id exactly once, in non-increasing order of score, each
\* entry with the score that totals holds for its id.
TotalsAndRankingCoverCandidates ==
  Aggregated =>
    LET totals == votingResult.totals
        ranking == votingResult.ranking
    IN  /\ ~votingResult.threw
        /\ Len(totals) = Len(candidates)
        /\ {totals[i].key : i \in 1..Len(totals)} = CandidateIdSet
        /\ Len(ranking) = Len(candidates)
        /\ {ranking[i].candidateId : i \in 1..Len(ranking)} = CandidateIdSet
        /\ \A i \in 1..Len(ranking) :
             /\ ranking[i].score.num
             /\ ranking[i].score = Get(totals, ranking[i].candidateId)
        /\ \A i \in 1..(Len(ranking) - 1) : ranking[i].score.n >= ranking[i + 1].score.n

\* C8, as the claim states it: for a non-empty candidate list the winner is
\* one of the candidates, and when every ballot is empty it is the first
\* candidate of the list.
WinnerIsCandidate ==
  Aggregated =>
    /\ votingResult.winnerId \in CandidateIdSet
    /\ ( /\ votes # <<>>
         /\ \A v \in 1..Len(votes) : votes[v].rankedIds = <<>> /\ votes[v].scores = <<>> ) =>
         votingResult.winnerId = candidates[1].id

\* C9, as the claim states it: the total of every candidate is the sum of
\* its rank points over the ballots, each ranking filtered to candidate ids,
\* plus the sum of its finite scores.
TotalsAreRankPointsPlusScores ==
  Aggregated =>
    \A i \in 1..Len(candidates) :
      Get(votingResult.totals, candidates[i].id) = Num(ExpectedTotal(candidates[i].id))

\* The vote list without the ids that name no candidate.
WithoutUnknownIds(vs) ==
  [v \in 1..Len(vs) |->
     [vs[v] EXCEPT !.rankedIds = Keep(@, CandidateIdSet),
                   !.scores = KeepEntries(@, CandidateIdSet)]]

\* C10, as the claim states it: ids that name no candidate are ignored; the
\* result is the one of the vote list without those ids, and neither totals
\* nor ranking has an entry for such an id.
UnknownIdsIgnored ==
  Aggregated =>
    /\ votingResult = aggregateVotes(WithoutUnknownIds(votes), candidates)
    /\ \A i \in 1..Len(votingResult.totals) : votingResult.totals[i].key \in CandidateIdSet
    /\ \A i \in 1..Len(votingResult.ranking) :
         votingResult.ranking[i].candidateId \in CandidateIdSet

\* Position of a candidate id in the candidate list.
RosterIndex(id) == CHOOSE i \in 1..Len(candidates) : candidates[i].id = id

\* C11, as the claim states it: candidates with equal totals appear in the
\* ranking in the order they have in the candidate list.
TiesKeepRosterOrder ==
  Aggregated =>
    \A i, j \in 1..Len(votingResult.ranking) :
      LET x == votingResult.ranking[i]
          y == votingResult.ranking[j]
      IN  ( /\ i < j
            /\ x.candidateId \in CandidateIdSet
            /\ y.candidateId \in CandidateIdSet
            /\ x.score = y.score ) =>
            RosterIndex(x.candidateId) < RosterIndex(y.candidateId)

\* Every ballot of a non-empty vote list carries the same ranking of
\* distinct candidate ids and no scores.
Unanimous ==
  /\ votes # <<>>
  /\ \A v \in 1..Len(votes) : votes[v].rankedIds = votes[1].rankedIds /\ votes[v].scores = <<>>
  /\ votes[1].rankedIds # <<>>
  /\ IsInjective(votes[1].rankedIds)
  /\ \A i \in 1..Len(votes[1].rankedIds) : votes[1].rankedIds[i] \in CandidateIdSet

\* C12, as the claim states it: with unanimous ballots the winner and the
\* head of the ranking are the first id of the common ranking.
UnanimousFirstWins ==
  (Aggregated /\ Unanimous) =>
    /\ votingResult.winnerId = votes[1].rankedIds[1]
    /\ votingResult.ranking[1].candidateId = votes[1].rankedIds[1]

\* C12, amended: with unanimous ballots that rank at least two candidates,
\* the winner and the head of the ranking are the first id of the common
\* ranking; a common ranking of a single id gives no candidate any point, and
\* the winner is then the head of the all-zero ranking.
UnanimousRankingWins ==
  (Aggregated /\ Unanimous) =>
    IF Len(votes[1].rankedIds) >= 2
    THEN /\ votingResult.winnerId = votes[1].rankedIds[1]
         /\ votingResult.ranking[1].candidateId = votes[1].rankedIds[1]
         /\ votingResult.ranking[1].score = Num(Len(votes) * (Len(votes[1].rankedIds) - 1))
    ELSE /\ \A i \in 1..Len(votingResult.ranking) : votingResult.ranking[i].score = Num(0)
         /\ votingResult.winnerId = votingResult.totals[1].key

\* Two judges both rank b before a, over the candidates a, b.
UnanimousWitness ==
  /\ Aggregated
  /\ Ids(candidates) = <<"a", "b">>
  /\ Len(votes) = 2
  /\ Unanimous
  /\ votes[1].rankedIds = <<"b", "a">>
  /\ votingResult.winnerId = "b"

\* C13, as the claim states it: a single ballot without scores whose ranking
\* holds k distinct candidate ids gives k - 1 points to the first of them and
\* 0 to the last.
BordaPointsArePositional ==
  (Aggregated /\ Len(votes) = 1 /\ votes[1].scores = <<>>) =>
    LET valid == Keep(votes[1].rankedIds, CandidateIdSet)
    IN  (valid # <<>> /\ IsInjective(valid)) =>
          /\ Get(votingResult.totals, valid[1]) = Num(Len(valid) - 1)
          /\ Get(votingResult.totals, valid[Len(valid)]) = Num(0)

AggregationNeverRaises ==
  pc = "aggregated" => ~votingResult.threw

(***************************************************************************)
(* selectWorkers on its own: any integer count.                            *)
(***************************************************************************)
Counts == (0 - MaxCount)..(MAX_WORKERS + MaxCount)

InitSelect ==
  /\ pc = "select"
  /\ body \in [message : {<<>>}, agentsCount : Counts, mode : {"fast"},
               discussionEnabled : {FALSE}, webBrowsingEnabled : {FALSE}]
  /\ calls = NoCalls
  /\ generator = <<>>
  /\ workers = <<>>
  /\ search = <<>>
  /\ webFindings = <<>>
  /\ proposals = <<>>
  /\ revisions = <<>>
  /\ ballots = <<>>
  /\ candidates = <<>>
  /\ votes = <<>>
  /\ votingResult = NoVotingResult
  /\ finalizer = <<>>
  /\ response = NoResponse
  /\ prompts = NoPrompts
  /\ input = <<>>
  /\ output = <<>>

\* workers = selectWorkers(agentsCount)
SelectWorkers ==
  /\ pc = "select"
  /\ pc' = "selected"
  /\ workers' = selectWorkers(body.agentsCount)
  /\ UNCHANGED <<body, calls, generator, search, webFindings, proposals, revisions,
                 ballots, candidates, votes, votingResult, finalizer, response,
                 prompts, input, output>>

NextSelect == SelectWorkers

SpecSelect == InitSelect /\ [][NextSelect]_vars

\* C16: for every integer count n, selectWorkers returns the leading
\* min(max(n, 1), MAX_WORKERS, roster size) personas of the roster: at least
\* one, at most the roster; exactly one for the counts 0 and -10.
SelectionIsClamped ==
  pc = "selected" =>
    LET n == body.agentsCount
        expected == Min(Min(Max(n, 1), MAX_WORKERS), Len(WORKER_AGENTS))
    IN  /\ Len(workers) = expected
        /\ Len(workers) >= 1
        /\ Len(workers) <= Len(WORKER_AGENTS)
        /\ workers = SubSeq(WORKER_AGENTS, 1, Len(workers))
        /\ n \in {0, -10} => Len(workers) = 1

\* selectWorkers(-10) has returned one persona.
SelectionWitness ==
  /\ pc = "selected"
  /\ body.agentsCount = -10
  /\ workers = <<WORKER_AGENTS[1]>>

(***************************************************************************)
(* Properties of the candidates of a turn (checked under Spec).            *)
(***************************************************************************)

\* The discussion round, if any, has been joined.
DiscussionOver == pc \in {"judging", "finalizing", "done", "failed"}

\* The discussion call of the i-th candidate returned a reply that the task
\* could read.
DiscussionSucceeded(i) ==
  /\ body.discussionEnabled
  /\ ~revisions[i].reply.raised
  /\ parseJsonResponse(revisions[i].reply, JsonNumber).kind # "null"

\* C17, as the claim states it: in the result of a turn every candidate's
\* answer and reasoning are non-empty strings.
CandidateTextNeverEmpty ==
  pc = "done" =>
    \A i \in 1..Len(response.result.candidates) :
      /\ response.result.candidates[i].answer # <<>>
      /\ response.result.candidates[i].reasoning # <<>>

\* C18: once the discussion round is over (or was skipped), a candidate's
\* answer is its revised discussion answer when its discussion call
\* succeeded with a non-empty answer, and its initialAnswer otherwise;
\* reasoning likewise; the initial pair is the one of the proposal stage.
\* With discussion disabled no discussion call is issued and
\* discussionAnswer and discussionReasoning stay undefined.
CurrentReflectsLastSuccess ==
  DiscussionOver =>
    /\ \A i \in 1..Len(candidates) :
         LET c == candidates[i]
         IN  /\ c.initialAnswer = proposals[i].value.answer
             /\ c.initialReasoning = proposals[i].value.reasoning
             /\ IF body.discussionEnabled
                THEN /\ c.answer = IF DiscussionSucceeded(i) /\ Truthy(c.discussionAnswer)
                                   THEN c.discussionAnswer.v ELSE c.initialAnswer
                     /\ c.reasoning = IF DiscussionSucceeded(i) /\ Truthy(c.discussionReasoning)
                                      THEN c.discussionReasoning.v ELSE c.initialReasoning
                ELSE /\ c.answer = c.initialAnswer
                     /\ c.reasoning = c.initialReasoning
                     /\ c.discussionAnswer = Undefined
                     /\ c.discussionReasoning = Undefined
    /\ ~body.discussionEnabled => calls.discussion = 0 /\ revisions = <<>>
    /\ pc = "done" => response.result.candidates = candidates

\* A finished turn with discussion in which the first candidate's answer was
\* revised, its reasoning as well, and the second candidate's discussion
\* call raised.
RevisionWitness ==
  /\ pc = "done"
  /\ body.discussionEnabled
  /\ Len(candidates) = 2
  /\ candidates[1].answer # candidates[1].initialAnswer
  /\ candidates[1].answer = candidates[1].discussionAnswer.v
  /\ revisions[2].reply.raised
  /\ candidates[2].answer = candidates[2].initialAnswer

\* C19: a candidate whose discussion call raised keeps the answer and the
\* reasoning of the proposal stage, gets that answer as discussionAnswer and
\* the error's message as discussionReasoning; every other candidate keeps
\* its identity and holds either its own proposal-stage answer or its own
\* revised one, and the turn goes on to the judges.
FailedDiscussionKeepsAnswer ==
  (DiscussionOver /\ body.discussionEnabled) =>
    /\ Len(candidates) = Len(proposals)
    /\ \A i \in 1..Len(candidates) :
         LET prior == proposals[i].value
         IN  /\ candidates[i].id = prior.id
             /\ ~revisions[i].reply.raised =>
                  candidates[i].answer \in {prior.answer, candidates[i].discussionAnswer.v}
             /\ revisions[i].reply.raised =>
                  /\ candidates[i].discussionAnswer = JsString(prior.answer)
                  /\ candidates[i].discussionReasoning =
                       JsString(extractErrorMessage(revisions[i].reply.error))
                  /\ candidates[i].answer = prior.answer
                  /\ candidates[i].reasoning = prior.reasoning
    /\ calls.judge = Len(getJudgeAgents)
    /\ pc = "failed" => finalizer # <<>>

\* A finished turn in which the first candidate's discussion call raised and
\* the second candidate's answer was revised.
FailedDiscussionWitness ==
  /\ pc = "done"
  /\ body.discussionEnabled
  /\ Len(candidates) = 2
  /\ revisions[1].reply.raised
  /\ candidates[1].discussionAnswer = JsString(candidates[1].initialAnswer)
  /\ candidates[2].answer # candidates[2].initialAnswer

\* C20: from the start of the discussion round on, the peer digest of every
\* task lists exactly the other candidates, in roster order, with their
\* proposal-stage answer and reasoning (the fixed sentence when there is no
\* other candidate); a settled task holds the candidate of its own position;
\* while the round runs the list that the tasks read stays the one of the
\* proposal stage.
DigestIsProposalSnapshot ==
  (ProposalsJoined /\ body.discussionEnabled) =>
    /\ Len(revisions) = Len(proposals)
    /\ \A i \in 1..Len(revisions) :
         LET n == Len(proposals)
             other(k) == proposals[IF k < i THEN k ELSE k + 1].value
         IN  /\ revisions[i].digest.entries =
                  [k \in 1..(n - 1) |->
                     [index |-> k, workerName |-> other(k).workerName,
                      answer |-> other(k).initialAnswer,
                      reasoning |-> other(k).initialReasoning]]
             /\ revisions[i].digest.sentence = IF n = 1 THEN NoPeers ELSE <<>>
             /\ revisions[i].settled =>
                  /\ revisions[i].value.id = proposals[i].value.id
                  /\ revisions[i].value.workerId = proposals[i].value.workerId
    /\ pc = "discussion" => candidates = Values(proposals)

\* Mid-round: the first candidate's revision has arrived, the second
\* candidate's call is still in flight, and the second task's digest holds
\* the first candidate's proposal-stage answer.
DigestWitness ==
  /\ pc = "discussion"
  /\ Len(revisions) = 2
  /\ revisions[1].settled
  /\ revisions[1].value.answer # proposals[1].value.answer
  /\ ~revisions[2].settled
  /\ revisions[2].digest.entries[1].answer = proposals[1].value.answer

(***************************************************************************)
(* Properties of the stages' joins and calls (checked under Spec).         *)
(***************************************************************************)

\* C21: whatever the order in which the calls of a stage settle, a settled
\* task holds the value of its own position (the candidate of its worker,
\* the vote of its judge), computed from its own reply; the joined candidate
\* list is in worker-roster order and the joined vote list in judge-panel
\* order; the VotingResult is the aggregation of those lists and the result
\* of the turn carries them with the final answer of the finalizer's reply.
CompletionOrderIrrelevant ==
  /\ \A i \in 1..Len(proposals) :
       proposals[i].settled =>
         /\ proposals[i].value.workerId = workers[i].id
         /\ proposals[i].value = runWorkerCandidate(workers[i], i, proposals[i].reply)
  /\ \A i \in 1..Len(revisions) :
       revisions[i].settled =>
         /\ revisions[i].value.workerId = workers[i].id
         /\ revisions[i].value = runDiscussion(proposals[i].value, revisions[i].reply)
  /\ \A j \in 1..Len(ballots) :
       ballots[j].settled =>
         /\ ballots[j].value.judgeId = getJudgeAgents[j].id
         /\ ballots[j].value = runJudgeVote(getJudgeAgents[j], ballots[j].reply)
  /\ ProposalsJoined =>
       /\ Len(candidates) = Len(workers)
       /\ \A i \in 1..Len(candidates) :
            /\ candidates[i].workerId = workers[i].id
            /\ candidates[i] = IF body.discussionEnabled /\ pc # "discussion"
                               THEN revisions[i].value ELSE proposals[i].value
  /\ VotesJoined =>
       /\ Len(votes) = Len(getJudgeAgents)
       /\ \A j \in 1..Len(votes) :
            /\ votes[j].judgeId = getJudgeAgents[j].id
            /\ votes[j] = ballots[j].value
       /\ votingResult = aggregateVotes(votes, candidates)
  /\ pc = "done" =>
       /\ response.result.candidates = candidates
       /\ response.result.votes = votes
       /\ response.result.votingResult = votingResult
       /\ response.result.finalAnswer =
            Member(parseJsonResponse(finalizer[1].reply,
                                     FinalizerFallback(body.message, candidates, votingResult)),
                   "final_answer")

\* The last call of each stage settled first: the second judge has voted on
\* two revised candidates while the first judge's call is still in flight.
OutOfOrderWitness ==
  /\ pc = "judging"
  /\ Len(candidates) = 2
  /\ body.discussionEnabled
  /\ ballots[2].settled
  /\ ~ballots[1].settled
  /\ candidates[2].workerId = workers[2].id
  /\ candidates[2].answer # candidates[2].initialAnswer

\* C22: no call is issued twice. At every point of a turn the number of
\* calls issued to each service is the number of tasks of its stage: one
\* generator call, one search call only with web browsing enabled, one
\* proposal call per selected worker, one discussion call per candidate if
\* and only if discussion is enabled, one call per judge, one finalizer
\* call at most; a task that has settled with a failure is not called again.
NoCallRetried ==
  /\ calls.generator = Len(generator) /\ calls.generator <= 1
  /\ calls.search = Len(search) /\ calls.search <= 1
  /\ ~body.webBrowsingEnabled => calls.search = 0
  /\ calls.worker = Len(proposals)
  /\ calls.worker = IF pc = "proposal" \/ ProposalsJoined THEN Len(workers) ELSE 0
  /\ calls.discussion = Len(revisions)
  /\ calls.discussion = IF body.discussionEnabled /\ ProposalsJoined THEN Len(workers) ELSE 0
  /\ calls.judge = Len(ballots)
  /\ calls.judge = IF pc = "judging" \/ VotesJoined THEN Len(getJudgeAgents) ELSE 0
  /\ calls.finalizer = Len(finalizer)
  /\ calls.finalizer = IF VotesJoined THEN 1 ELSE 0

\* A finished turn in which a proposal call, a discussion call and a judge
\* call raised, with two workers and discussion enabled.
FailedCallsWitness ==
  /\ pc = "done"
  /\ body.discussionEnabled
  /\ Len(workers) = 2
  /\ proposals[2].reply.raised
  /\ revisions[1].reply.raised
  /\ ballots[1].reply.raised
  /\ calls.worker = 2 /\ calls.discussion = 2 /\ calls.judge = Len(getJudgeAgents)

\* C25: when the web search raised, the turn goes on without findings: the
\* proposal calls are issued with no web section in their prompts, the
\* judges and the finalizer are called, a turn that fails fails in its
\* finalizer stage, and the result of the turn carries no webFindings.
SearchFailureIsNotFatal ==
  (search # <<>> /\ search[1].settled /\ search[1].reply.raised) =>
    /\ webFindings = <<>>
    /\ pc \in {"proposal", "discussion", "judging", "finalizing", "done", "failed"}
    /\ Len(workers) >= 1
    /\ calls.worker = Len(workers)
    /\ \A i \in 1..Len(prompts.worker) : prompts.worker[i].summary = <<>>
    /\ pc \in {"done", "failed"} =>
         /\ calls.judge = Len(getJudgeAgents)
         /\ calls.finalizer = 1
         /\ finalizer[1].settled
    /\ pc = "done" =>
         /\ response.status = 200
         /\ response.result.webFindings = Undefined

\* A finished turn whose web search raised.
SearchFailureWitness ==
  /\ pc = "done"
  /\ body.webBrowsingEnabled
  /\ search[1].reply.raised
  /\ response.status = 200
  /\ response.result.webFindings = Undefined

\* The web section that the prompts of a turn carry for the findings list
\* fs: the heading and one numbered entry per finding.
WebSectionFor(section, fs) ==
  /\ section.header = "Live web findings:"
  /\ Len(section.summary) = Len(fs)
  /\ \A k \in 1..Len(fs) :
       /\ section.summary[k].index = k
       /\ section.summary[k].title = fs[k].title
       /\ section.summary[k].url = fs[k].url
       /\ section.summary[k].summary = truncate(fs[k].snippet, 320)

\* C27: with web browsing enabled the one search call is issued, and has
\* settled, before any worker call; when it returned a non-empty findings
\* list, every worker, judge and finalizer prompt carries the summary of
\* that list and the result's webFindings is that list. With web browsing
\* disabled no search call is issued, no prompt has a web section and
\* webFindings is absent.
WebFindingsReachPrompts ==
  /\ calls.search <= 1
  /\ Len(prompts.worker) = calls.worker
  /\ Len(prompts.judge) = calls.judge
  /\ Len(prompts.finalizer) = calls.finalizer
  /\ IF body.webBrowsingEnabled
     THEN /\ calls.worker > 0 => calls.search = 1 /\ search[1].settled
          /\ (calls.worker > 0 /\ ~search[1].reply.raised /\ search[1].reply.findings # <<>>) =>
               /\ \A i \in 1..Len(prompts.worker) :
                    WebSectionFor(prompts.worker[i], search[1].reply.findings)
               /\ \A j \in 1..Len(prompts.judge) :
                    WebSectionFor(prompts.judge[j], search[1].reply.findings)
               /\ \A f \in 1..Len(prompts.finalizer) :
                    WebSectionFor(prompts.finalizer[f], search[1].reply.findings)
               /\ pc = "done" =>
                    response.result.webFindings = JsArray(search[1].reply.findings)
     ELSE /\ calls.search = 0
          /\ \A i \in 1..Len(prompts.worker) : prompts.worker[i].header = ""
          /\ \A j \in 1..Len(prompts.judge) : prompts.judge[j].header = ""
          /\ \A f \in 1..Len(prompts.finalizer) : prompts.finalizer[f].header = ""
          /\ pc = "done" => response.result.webFindings = Undefined

\* A finished turn of two workers whose search returned one finding.
WebFindingsWitness ==
  /\ pc = "done"
  /\ body.webBrowsingEnabled
  /\ calls.search = 1
  /\ Len(prompts.worker) = 2
  /\ prompts.worker[2].summary # <<>>
  /\ prompts.finalizer[1].header = "Live web findings:"
  /\ response.result.webFindings = JsArray(<<Finding>>)

\* C29, as the claim states it: an error reaches the caller only for a
\* parameter violation found before any call is issued (an empty message or
\* an estimate over the budget); every other failure is absorbed.
OnlyParameterErrorsReachCaller ==
  response.status \in {400, 500} =>
    /\ calls = NoCalls
    /\ \/ IsBlank(body.message)
       \/ OverBudget(safeAgentsCount, body.mode, body.discussionEnabled)

(***************************************************************************)
(* parseJsonFromModel on its own: any text, null or undefined.             *)
(***************************************************************************)
MaxTextLen == 3

Tokens == {Fence, "json", " ", "{", "members", "}", "null", "7", "prose"}

\* JSON texts and near misses, and what a model puts around them.
Cores ==
  { StrictText, EmptyObjectText, NullText, <<"7">>, <<"prose">>,
    <<"{", "prose", "}">>, <<"}", "{">>, <<>> }
Prefixes ==
  { <<>>, <<" ">>, <<"prose", " ">>, <<Fence>>, <<Fence, "json", " ">>,
    <<"prose", Fence, "json">> }
Suffixes ==
  { <<>>, <<" ">>, <<" ", "prose">>, <<Fence>>, <<" ", Fence, "prose">> }

Texts ==
  SeqsUpTo(Tokens, MaxTextLen)
    \cup { p \o c \o s : p \in Prefixes, c \in Cores, s \in Suffixes }

\* What the "members" token of a text denotes, and the caller's fallback.
ParsedMembers == [answer |-> JsString(<<"from the text">>)]
ParseFallback == JsonObject([answer |-> JsString(<<"fallback">>)])

InitParse ==
  /\ pc = "parse"
  /\ Idle
  /\ candidates = <<>>
  /\ votes = <<>>
  /\ votingResult = NoVotingResult
  /\ input \in [text : {Undefined, JsNull} \cup { JsString(t) : t \in Texts },
                fallback : {ParseFallback}]
  /\ output = <<>>

\* parseJsonFromModel(text, fallback): `!text` answers the fallback for
\* null, undefined and the empty string; both JSON.parse calls sit in a try
\* block and nothing else of the function can raise.
ParseText ==
  /\ pc = "parse"
  /\ pc' = "parsed"
  /\ output' = [threw |-> FALSE,
                value |-> IF input.text.t # "string" THEN input.fallback
                          ELSE parseJsonFromModel(input.text.v, ParsedMembers,
                                                  input.fallback)]
  /\ UNCHANGED <<body, calls, generator, workers, search, webFindings, proposals,
                 revisions, ballots, candidates, votes, votingResult, finalizer,
                 response, prompts, input>>

NextParse == ParseText

SpecParse == InitParse /\ [][NextParse]_vars

\* JSON.parse accepts the text s.
Parses(s) == JsonParse(s, ParsedMembers).ok

\* Neither the stripped text nor its first-'{'-to-last-'}' substring parses.
NothingParses(text) ==
  LET stripped == Trim(StripFences(text))
      first == FirstIndex(stripped, "{")
      last == LastIndex(stripped, "}")
  IN  /\ ~Parses(stripped)
      /\ (first # 0 /\ last > first) => ~Parses(SubSeq(stripped, first, last))

\* C23: parseJsonFromModel raises for no input, and it returns the fallback
\* unchanged for null, undefined, the empty text, and every text of which
\* neither the stripped form nor the brace-to-brace substring parses.
ParseNeverRaises ==
  pc = "parsed" =>
    /\ ~output.threw
    /\ input.text.t # "string" => output.value = input.fallback
    /\ (input.text.t = "string" /\ (input.text.v = <<>> \/ NothingParses(input.text.v))) =>
         output.value = input.fallback

\* Prose around braces that hold no JSON: both parses fail.
ParseFallbackWitness ==
  /\ pc = "parsed"
  /\ input.text = JsString(<<"prose", " ", "{", "prose", "}">>)
  /\ output.value = ParseFallback

\* C24, as the claim states it: the value returned for any text is a JSON
\* object parsed from the text or the typed fallback, never null or a number.
ParsedValueHasExpectedShape ==
  pc = "parsed" => output.value.kind = "object"

(***************************************************************************)
(* runWebSearch on its own (lib/tools/webSearch.ts).                       *)
(***************************************************************************)
MaxResults == 2

\* One result of either search service, and the finding it maps to.
SearchResult(k) == [title |-> <<"Result " \o ToString(k)>>,
                    link |-> <<"https://example.com/" \o ToString(k)>>,
                    text |-> <<"Snippet " \o ToString(k)>>]
FindingOf(result) == [title |-> result.title, url |-> result.link, snippet |-> result.text]
ResultLists == { [k \in 1..n |-> SearchResult(k)] : n \in 0..MaxResults }

\* What the Tavily request can do: fetch rejects, the response is not ok,
\* response.json() rejects, the payload has no results member, its results
\* member is not an array, or it is a list of results.
TavilyOutcomes ==
  { [kind |-> k, results |-> <<>>] :
      k \in {"rejects", "notOk", "badJson", "noResults", "notAnArray"} }
    \cup { [kind |-> "ok", results |-> rs] : rs \in ResultLists }

\* What duckDuckGoSearch can do: raise, resolve to nothing, or resolve to a
\* list of results.
DuckOutcomes ==
  { [kind |-> k, results |-> <<>>] : k \in {"raises", "nothing"} }
    \cup { [kind |-> "ok", results |-> rs] : rs \in ResultLists }

MapFindings(results) == [k \in 1..Len(results) |-> FindingOf(results[k])]

Returned(findings, requests) ==
  [threw |-> FALSE, findings |-> findings, requests |-> requests]

InitSearch ==
  /\ pc = "tavily"
  /\ Idle
  /\ candidates = <<>>
  /\ votes = <<>>
  /\ votingResult = NoVotingResult
  /\ input \in [apiKey : BOOLEAN, tavily : TavilyOutcomes, duck : DuckOutcomes]
  /\ output = <<>>

\* 1. With TAVILY_API_KEY set the Tavily request is made; an ok response
\* is mapped and returned, anything else falls through to DuckDuckGo.
CallTavily ==
  /\ pc = "tavily"
  /\ input.apiKey
  /\ IF input.tavily.kind \in {"ok", "noResults"}
     THEN /\ pc' = "returned"
          /\ output' = Returned(MapFindings(input.tavily.results), <<"tavily">>)
     ELSE /\ pc' = "duckduckgo"
          /\ output' = <<"tavily">>
  /\ UNCHANGED <<body, calls, generator, workers, search, webFindings, proposals,
                 revisions, ballots, candidates, votes, votingResult, finalizer,
                 response, prompts, input>>

\* Without a key the Tavily branch is skipped.
SkipTavily ==
  /\ pc = "tavily"
  /\ ~input.apiKey
  /\ pc' = "duckduckgo"
  /\ UNCHANGED <<body, calls, generator, workers, search, webFindings, proposals,
                 revisions, ballots, candidates, votes, votingResult, finalizer,
                 response, prompts, input, output>>

\* 2. The DuckDuckGo search: its results are mapped and returned; an error
\* or no result gives the empty list.
CallDuckDuckGo ==
  /\ pc = "duckduckgo"
  /\ pc' = "returned"
  /\ output' = Returned(IF input.duck.kind = "ok" THEN MapFindings(input.duck.results)
                        ELSE <<>>,
                        output \o <<"duckduckgo">>)
  /\ UNCHANGED <<body, calls, generator, workers, search, webFindings, proposals,
                 revisions, ballots, candidates, votes, votingResult, finalizer,
                 response, prompts, input>>

NextSearch == CallTavily \/ SkipTavily \/ CallDuckDuckGo

SpecSearch == InitSearch /\ [][NextSearch]_vars

\* C26, as the claim states it: runWebSearch never raises, returns the
\* empty list without TAVILY_API_KEY, and returns the empty list when every
\* search request it makes fails.
SearchNoOpsWhenUnconfigured ==
  pc = "returned" =>
    /\ ~output.threw
    /\ ~input.apiKey => output.findings = <<>>
    /\ ( /\ input.apiKey => input.tavily.kind \in {"rejects", "notOk", "badJson", "notAnArray"}
         /\ input.duck.kind # "ok" ) => output.findings = <<>>

(***************************************************************************)
(* estimateSwarmRuntimeSeconds on its own (lib/config.ts).                 *)
(***************************************************************************)
MaxEstimated == 70

InitEstimate ==
  /\ pc = "estimate"
  /\ Idle
  /\ candidates = <<>>
  /\ votes = <<>>
  /\ votingResult = NoVotingResult
  /\ input \in [agentsCount : 0..MaxEstimated, mode : {"fast", "reasoning"},
                discussionEnabled : BOOLEAN]
  /\ output = <<>>

Estimate ==
  /\ pc = "estimate"
  /\ pc' = "estimated"
  /\ output' = estimateSwarmRuntime(input.agentsCount, input.mode, input.discussionEnabled)
  /\ UNCHANGED <<body, calls, generator, workers, search, webFindings, proposals,
                 revisions, ballots, candidates, votes, votingResult, finalizer,
                 response, prompts, input>>

NextEstimate == Estimate

SpecEstimate == InitEstimate /\ [][NextEstimate]_vars

\* agentsCount x perAgentCost(mode) x discussion multiplier, in 1/10000 s.
EstimateFormula(n, mode, discussionEnabled) ==
  n * (IF mode = "reasoning" THEN 425 ELSE 140) * (IF discussionEnabled THEN 175 ELSE 100)

\* C28: the estimate is agentsCount x perAgentCost(mode) x (discussion
\* multiplier if discussionEnabled, else 1); it is never negative, it does
\* not decrease when agentsCount grows, it is not smaller with discussion
\* than without, and for one agent or more it is strictly larger in
\* reasoning mode than in fast mode.
EstimateIsMonotone ==
  pc = "estimated" =>
    LET n == input.agentsCount
        mode == input.mode
        disc == input.discussionEnabled
    IN  /\ output = EstimateFormula(n, mode, disc)
        /\ output >= 0
        /\ \A m \in 0..n : EstimateFormula(m, mode, disc) <= output
        /\ disc => EstimateFormula(n, mode, FALSE) <= output
        /\ ~disc => output <= EstimateFormula(n, mode, TRUE)
        /\ (mode = "reasoning" /\ n >= 1) => EstimateFormula(n, "fast", disc) < output
        /\ (mode = "fast" /\ n >= 1) => output < EstimateFormula(n, "reasoning", disc)

\* The estimate of a full swarm in reasoning mode with discussion:
\* 64 x 4.25 s x 1.75 = 476 s.
EstimateWitness ==
  /\ pc = "estimated"
  /\ input = [agentsCount |-> MAX_WORKERS, mode |-> "reasoning", discussionEnabled |-> TRUE]
  /\ output = 4760000

(***************************************************************************)
(* The file check of the chat route (app/api/chat/route.ts).               *)
(***************************************************************************)
MaxFiles == 2

SessionUser == "alice"

\* The UserFile table: one file of the session's user, one of another user.
UserFiles ==
  { [id |-> "file-a", userId |-> "alice", openAiFileId |-> "openai-a"],
    [id |-> "file-b", userId |-> "bob", openAiFileId |-> "openai-b"] }

\* A sanitized file reference of the request; "" stands for undefined.
FileRefs ==
  [userFileId : {"", "file-a", "file-b", "file-x"},
   openAiFileId : {"", "openai-a", "openai-b"}]

InitFiles ==
  /\ pc = "verify"
  /\ Idle
  /\ candidates = <<>>
  /\ votes = <<>>
  /\ votingResult = NoVotingResult
  /\ input \in SeqsUpTo(FileRefs, MaxFiles)
  /\ output = <<>>

\* The library ids the request names.
LibraryIds(files) == { files[i].userFileId : i \in 1..Len(files) } \ {""}

\* prisma.userFile.findMany({ where: { userId, id: { in: libraryIds } } })
FindMany(userId, ids) == { record \in UserFiles : record.userId = userId /\ record.id \in ids }

\* resolveUserFiles(files, userId)
resolveUserFiles(files, userId) ==
  LET libraryIds == LibraryIds(files)
      records == FindMany(userId, libraryIds)
      has(id) == \E record \in records : record.id = id
      get(id) == CHOOSE record \in records : record.id = id
  IN  IF libraryIds = {} THEN [threw |-> FALSE, files |-> files]
      ELSE IF \E id \in libraryIds : ~has(id) THEN [threw |-> TRUE, files |-> <<>>]
      ELSE [threw |-> FALSE,
            files |-> [i \in 1..Len(files) |->
                         IF files[i].userFileId # "" /\ has(files[i].userFileId)
                         THEN [files[i] EXCEPT !.openAiFileId = get(files[i].userFileId).openAiFileId]
                         ELSE files[i]]]

\* The route verifies the files: an error answers 400, otherwise the
\* verified list is kept for the call of runSwarmTurn.
ResolveUserFiles ==
  /\ pc = "verify"
  /\ LET resolved == resolveUserFiles(input, SessionUser)
     IN  IF resolved.threw
         THEN /\ pc' = "refused"
              /\ response' = Respond(400, <<"One or more files could not be found.">>, <<>>)
              /\ output' = output
         ELSE /\ pc' = "verified"
              /\ response' = response
              /\ output' = resolved.files
  /\ UNCHANGED <<body, calls, generator, workers, search, webFindings, proposals,
                 revisions, ballots, candidates, votes, votingResult, finalizer,
                 prompts, input>>

\* runSwarmTurn({files: verifiedFiles, ...}): buildFileParts keeps the
\* OpenAI file id of every file that has one.
PassFiles ==
  /\ pc = "verified"
  /\ pc' = "invoked"
  /\ output' = [files |-> output,
                fileParts |-> SelectSeq([i \in 1..Len(output) |-> output[i].openAiFileId],
                                        LAMBDA id : id # "")]
  /\ UNCHANGED <<body, calls, generator, workers, search, webFindings, proposals,
                 revisions, ballots, candidates, votes, votingResult, finalizer,
                 response, prompts, input>>

NextFiles == ResolveUserFiles \/ PassFiles

SpecFiles == InitFiles /\ [][NextFiles]_vars

\* The OpenAI file ids of the files that the user owns.
OwnedOpenAiIds == { record.openAiFileId : record \in { r \in UserFiles : r.userId = SessionUser } }

\* C30, as the claim states it: every file reference that reaches
\* runSwarmTurn, its OpenAI file id included, belongs to the session's user,
\* and a request that names a file of the library which the user does not
\* own never reaches runSwarmTurn.
FilesBelongToUser ==
  pc = "invoked" =>
    /\ \A i \in 1..Len(output.fileParts) : output.fileParts[i] \in OwnedOpenAiIds
    /\ \A i \in 1..Len(input) :
         input[i].userFileId # "" =>
           \E record \in UserFiles : record.id = input[i].userFileId /\ record.userId = SessionUser

(***************************************************************************)
(* Termination of a turn (checked under SpecLive).                         *)
(***************************************************************************)

\* C31: when every call that is issued eventually settles, a turn that
\* runSwarmTurn has started eventually settles, with a result or with an
\* error; no stage waits for anything but its own calls.
TurnEventuallySettles == (pc = "admitted") ~> (pc \in {"done", "failed"})

\* A settled turn in which every stage, the search and the discussion round
\* included, had calls to wait for.
SettledTurnWitness ==
  /\ pc \in {"done", "failed"}
  /\ body.webBrowsingEnabled
  /\ body.discussionEnabled
  /\ calls.search = 1
  /\ calls.worker = 2
  /\ calls.discussion = 2
  /\ calls.finalizer = 1

(***************************************************************************)
(* The runner-ups of runFinalizer on their own: a roster of up to          *)
(* MaxRunnerCands candidates and the aggregate of one ballot.              *)
(***************************************************************************)
MaxRunnerCands == 5

RunnerIds == <<"a", "b", "c", "d", "e", "f", "g">>

RunnerLists ==
  { [i \in 1..n |->
       Candidate(RunnerIds[i], Persona("worker-" \o RunnerIds[i], "Worker " \o RunnerIds[i]),
                 <<"Answer " \o RunnerIds[i]>>, <<"Reasoning " \o RunnerIds[i]>>)] :
    n \in 1..MaxRunnerCands }

\* A ballot that ranks up to two ids, candidates or the inherited name.
RunnerBallots(cands) ==
  LET ids == {cands[i].id : i \in 1..Len(cands)} \cup ProtoKeys
  IN  { Vote(TestJudge, r, <<>>, JsString(<<>>)) :
          r \in {s \in SeqsUpTo(ids, 2) : IsInjective(s)} }

InitRunnerUps ==
  /\ pc = "aggregated"
  /\ Idle
  /\ candidates \in RunnerLists
  /\ \E ballot \in RunnerBallots(candidates) : votes = <<ballot>>
  /\ votingResult = aggregateVotes(votes, candidates)
  /\ input = <<>>
  /\ output = <<>>

\* runFinalizer builds the runner-up list of its prompt.
ListRunnerUps ==
  /\ pc = "aggregated"
  /\ pc' = "listed"
  /\ output' = runnerUps(candidates, votingResult)
  /\ UNCHANGED <<body, calls, generator, workers, search, webFindings, proposals,
                 revisions, ballots, candidates, votes, votingResult, finalizer,
                 response, prompts, input>>

NextRunnerUps == ListRunnerUps

SpecRunnerUps == InitRunnerUps /\ [][NextRunnerUps]_vars

\* The entries of the ranking that name a candidate other than the winner.
OtherRanked ==
  LET other(entry) ==
        /\ entry.candidateId # votingResult.winnerId
        /\ \E i \in 1..Len(candidates) : candidates[i].id = entry.candidateId
  IN  SelectSeq(votingResult.ranking, other)

\* C33: the finalizer is given at most FINALIZER_RUNNER_UP_COUNT runner-ups;
\* they are the highest-ranked candidates of the ranking other than the
\* winner, in ranking order, each with its score and its worker's name, and
\* the winner is not among them.
RunnerUpsAreTopRanked ==
  pc = "listed" =>
    /\ Len(output) <= FINALIZER_RUNNER_UP_COUNT
    /\ Len(output) = Min(FINALIZER_RUNNER_UP_COUNT, Len(OtherRanked))
    /\ \A i \in 1..Len(output) :
         /\ output[i].id = OtherRanked[i].candidateId
         /\ output[i].score = OtherRanked[i].score
         /\ output[i].id # votingResult.winnerId
         /\ \E c \in 1..Len(candidates) :
              /\ candidates[c].id = output[i].id
              /\ candidates[c].workerName = output[i].workerName

\* Five candidates, one of them the winner: three of the four others are
\* listed, and the ranking has an entry that is no candidate.
RunnerUpsWitness ==
  /\ pc = "listed"
  /\ Len(candidates) = 5
  /\ Len(output) = FINALIZER_RUNNER_UP_COUNT
  /\ Len(votingResult.ranking) = 6
  /\ votingResult.winnerId = "b"

\* C32: a turn whose roster is empty raises "No worker candidates were
\* generated." at the join of the proposals and issues no discussion, judge
\* or finalizer call; the roster is empty only for a count outside
\* 1..MAX_WORKERS, whatever the generator replied.
EmptyRosterRejected ==
  /\ \A count \in 1..MAX_WORKERS : \A reply \in GeneratorReplies :
       generateAgents(reply, count) # <<>>
  /\ (workers = <<>> /\ generator # <<>> /\ generator[1].settled)
       => body.agentsCount \notin 1..MAX_WORKERS
  /\ workers = <<>>
       => calls.discussion = 0 /\ calls.judge = 0 /\ calls.finalizer = 0
  /\ (workers = <<>> /\ pc \notin {"admitted", "generating", "searching", "proposal"})
       => /\ pc = "failed"
          /\ candidates = <<>>
          /\ (output = NoCandidatesError \/ IsBlank(body.message))

EmptyRosterWitness ==
  /\ pc = "failed"
  /\ body.agentsCount = 0
  /\ generator # <<>> /\ generator[1].settled
  /\ calls.generator = 1
  /\ workers = <<>>
  /\ output = NoCandidatesError

(***************************************************************************)
(* buildHistorySnippet on its own. A string is the sequence of its         *)
(* characters here, so that lengths are lengths in characters.             *)
(***************************************************************************)
MAX_HISTORY_TURNS == 6
HISTORY_CHAR_LIMIT == 2400

MaxTurns == 7

UserPrefix == <<"U", "s", "e", "r", ":", " ">>
AssistantPrefix == <<"A", "s", "s", "i", "s", "t", "a", "n", "t", ":", " ">>

\* array.slice(-n) for n > 0
SliceLast(array, n) == SubSeq(array, Max(Len(array) - n, 0) + 1, Len(array))

\* `${turn.role === "user" ? "User" : "Assistant"}: ${turn.content}`
TurnLine(turn) ==
  (IF turn.role = "user" THEN UserPrefix ELSE AssistantPrefix) \o turn.content

\* lines.join("\n")
RECURSIVE JoinLines(_)
JoinLines(lines) ==
  IF lines = <<>> THEN <<>>
  ELSE IF Len(lines) = 1 THEN lines[1]
  ELSE lines[1] \o <<"\n">> \o JoinLines(Tail(lines))

\* A snippet that keeps the leading characters of an over-long text.
buildHistoryLeading(history) ==
  LET recent   == SliceLast(history, MAX_HISTORY_TURNS)
      combined == JoinLines([i \in 1..Len(recent) |-> TurnLine(recent[i])])
  IN  IF Len(combined) <= HISTORY_CHAR_LIMIT THEN combined
      ELSE SubSeq(combined, 1, HISTORY_CHAR_LIMIT)

\* buildHistorySnippet(history)
buildHistorySnippet(history) ==
  LET recent   == SliceLast(history, MAX_HISTORY_TURNS)
      combined == JoinLines([i \in 1..Len(recent) |-> TurnLine(recent[i])])
  IN  IF Len(combined) <= HISTORY_CHAR_LIMIT THEN combined
      ELSE SubSeq(combined, Len(combined) - HISTORY_CHAR_LIMIT + 1, Len(combined))

\* The characters of the turns, one per position of the history.
TurnChars == <<"1", "2", "3", "4", "5", "6", "7", "8", "9">>

\* Histories of up to MaxTurns turns with alternating roles; every turn has
\* the same number of characters, and turn i consists of the character i.
\* Three turns of 790 characters that start with the assistant join to
\* 2400 characters, and three of 791 to 2403.
ContentLengths == {0, 1, 390, 400, 790, 791}

Histories ==
  { [i \in 1..n |->
       [role |-> IF (i % 2 = 1) = userFirst THEN "user" ELSE "assistant",
        content |-> [k \in 1..len |-> TurnChars[i]]]] :
    n \in 0..MaxTurns, userFirst \in BOOLEAN, len \in ContentLengths }

InitHistory ==
  /\ pc = "history"
  /\ Idle
  /\ candidates = <<>>
  /\ votes = <<>>
  /\ votingResult = NoVotingResult
  /\ input \in Histories
  /\ output = <<>>

BuildHistorySnippet ==
  /\ pc = "history"
  /\ pc' = "snippet"
  /\ output' = buildHistorySnippet(input)
  /\ UNCHANGED <<body, calls, generator, workers, search, webFindings, proposals,
                 revisions, ballots, candidates, votes, votingResult, finalizer,
                 response, prompts, input>>

NextHistory == BuildHistorySnippet

SpecHistory == InitHistory /\ [][NextHistory]_vars

\* The text of the turns of a history from turn `first` on, joined by
\* newlines.
RECURSIVE TextFrom(_, _)
TextFrom(history, first) ==
  IF first > Len(history) THEN <<>>
  ELSE TurnLine(history[first])
         \o (IF first < Len(history) THEN <<"\n">> ELSE <<>>)
         \o TextFrom(history, first + 1)

\* C34: the history snippet is built from at most the last
\* MAX_HISTORY_TURNS turns of the history, is never longer than
\* HISTORY_CHAR_LIMIT characters, and is the joined text of those turns when
\* that fits and exactly its trailing HISTORY_CHAR_LIMIT characters when it
\* does not.
HistoryIsTrailing ==
  pc = "snippet" =>
    LET first  == Max(Len(input) - MAX_HISTORY_TURNS, 0) + 1
        joined == TextFrom(input, first)
    IN  /\ Len(output) <= HISTORY_CHAR_LIMIT
        /\ Len(joined) <= HISTORY_CHAR_LIMIT => output = joined
        /\ Len(joined) > HISTORY_CHAR_LIMIT =>
             /\ Len(output) = HISTORY_CHAR_LIMIT
             /\ \A k \in 1..HISTORY_CHAR_LIMIT :
                  output[k] = joined[Len(joined) - HISTORY_CHAR_LIMIT + k]
        /\ \A k \in 1..Len(output) :
             \A t \in 1..(first - 1) : output[k] # TurnChars[t]

\* Seven turns of 791 characters: the first turn is dropped and the text of
\* the last six is cut to its trailing characters.
HistoryWitness ==
  /\ pc = "snippet"
  /\ Len(input) = 7
  /\ Len(input[1].content) = 791
  /\ Len(output) = HISTORY_CHAR_LIMIT
  /\ output[1] # "A" /\ output[1] # "U"
  /\ output[HISTORY_CHAR_LIMIT] = "7"

\* Ballot w ranks x last: x is the last ranked id, behind at least one other.
RanksLast(w, x) ==
  LET r == votes[w].rankedIds
  IN  /\ Len(r) >= 2
      /\ r[Len(r)] = x
      /\ \A i \in 1..(Len(r) - 1) : r[i] # x

\* Ballot v gives nothing but a finite raw score to x, and every other
\* ballot ranks x last.
LoneScore(v, x) ==
  /\ Len(votes) >= 2
  /\ votes[v].rankedIds = <<>>
  /\ Len(votes[v].scores) = 1
  /\ votes[v].scores[1].key = x
  /\ votes[v].scores[1].val.num
  /\ \A w \in 1..Len(votes) : w # v => (RanksLast(w, x) /\ votes[w].scores = <<>>)

\* C35: rank points and raw scores are summed without normalization, so one
\* ballot can decide the outcome: when every other ballot ranks candidate x
\* last and one ballot gives x a raw score, the total of x is that score, and
\* x wins as soon as the score exceeds the rank points of every other
\* candidate.
SingleScoreDecides ==
  Aggregated =>
    \A x \in CandidateIdSet : \A v \in 1..Len(votes) :
      LoneScore(v, x) =>
        /\ Get(votingResult.totals, x) = votes[v].scores[1].val
        /\ (\A y \in CandidateIdSet \ {x} :
              /\ Get(votingResult.totals, y).num
              /\ Get(votingResult.totals, y).n < votes[v].scores[1].val.n)
             => votingResult.winnerId = x

\* The first ballot ranks b last and a first; the second gives b the raw
\* score 2 and b wins, while the first ballot alone elects a.
SingleScoreWitness ==
  /\ Aggregated
  /\ Len(candidates) = 2 /\ candidates[1].id = "a" /\ candidates[2].id = "b"
  /\ Len(votes) = 2
  /\ RanksLast(1, "b")
  /\ LoneScore(2, "b")
  /\ votes[2].scores[1].val = Num(2)
  /\ votingResult.winnerId = "b"
  /\ Get(votingResult.totals, "a") = Num(1)

\* C36: candidates are read-only after the discussion stage: no step of the
\* judging stage, of the aggregation or of the finalizer changes the
\* candidate list, and the candidates of the returned result are that list,
\* the one the judges were shown.
CandidatesReadOnlyAfterDiscussion ==
  [][(pc \in {"judging", "finalizing"}) =>
       (/\ candidates' = candidates
        /\ pc' = "done" => response'.result.candidates = candidates)]_vars

\* A finished turn of two candidates: the discussion revised the first one,
\* and the discussion call of the second one failed.
CandidatesReadOnlyWitness ==
  /\ pc = "done"
  /\ body.discussionEnabled
  /\ Len(candidates) = 2
  /\ calls.judge = Len(getJudgeAgents)
  /\ candidates[1].answer # candidates[1].initialAnswer
  /\ revisions[2].reply.raised
  /\ response.result.candidates = candidates

\* C37: the discussion round preserves candidate identity: whatever mix of
\* discussion calls succeeded and failed, the candidate list after the round
\* has the length and the order of the list of proposals, and every
\* candidate keeps its id, its worker fields, its initialAnswer and its
\* initialReasoning.
DiscussionPreservesIdentity ==
  (DiscussionOver /\ revisions # <<>>) =>
    /\ Len(candidates) = Len(proposals)
    /\ \A i \in 1..Len(candidates) :
         /\ candidates[i].id = proposals[i].value.id
         /\ candidates[i].workerId = proposals[i].value.workerId
         /\ candidates[i].workerName = proposals[i].value.workerName
         /\ candidates[i].initialAnswer = proposals[i].value.initialAnswer
         /\ candidates[i].initialReasoning = proposals[i].value.initialReasoning
         /\ candidates[i].workerId = workers[i].id

\* After a round of two calls: the first revised its candidate's answer and
\* the second raised.
DiscussionIdentityWitness ==
  /\ pc = "judging"
  /\ Len(revisions) = 2
  /\ ~revisions[1].reply.raised
  /\ candidates[1].answer # proposals[1].value.answer
  /\ revisions[2].reply.raised
  /\ candidates[1].id # candidates[2].id

\* The vote list with its ballots in the opposite order.
ReversedVotes == [i \in 1..Len(votes) |-> votes[Len(votes) + 1 - i]]

\* C38, as the claim states it: the aggregation result does not depend on
\* the order of the ballots; with integer scores the vote list in another
\* order yields the same totals, ranking and winnerId.
BallotOrderIrrelevant ==
  Aggregated =>
    LET other == aggregateVotes(ReversedVotes, candidates)
    IN  /\ other.totals = votingResult.totals
        /\ other.ranking = votingResult.ranking
        /\ other.winnerId = votingResult.winnerId

\* What remains of C38: the totals of the candidates and the winner do not
\* depend on the order of the ballots.
CandidateTotalsIgnoreBallotOrder ==
  Aggregated =>
    LET other == aggregateVotes(ReversedVotes, candidates)
    IN  /\ \A c \in CandidateIdSet : Get(other.totals, c) = Get(votingResult.totals, c)
        /\ other.winnerId = votingResult.winnerId

(***************************************************************************)
(* The clamp of the chat route on its own: any agentsCount a JSON body can *)
(* carry, or none.                                                         *)
(***************************************************************************)
\* The finite counts include two of two hundred million, one negative.
BodyCounts ==
  { BodyCount(t, 0) : t \in {"undefined", "null", "string", "boolean",
                             "nan", "infinity", "-infinity"} } \cup
  { BodyCount("finite", n) :
      n \in ((-10 * MaxCount)..(10 * (MAX_WORKERS + MaxCount))) \cup {2000000000, -2000000000} }

InitClamp ==
  /\ pc = "body"
  /\ Idle
  /\ candidates = <<>>
  /\ votes = <<>>
  /\ votingResult = NoVotingResult
  /\ input \in BodyCounts
  /\ output = <<>>

\* POST: const { agentsCount = 4 } = await request.json();
\* const safeAgentsCount = clampAgents(agentsCount)
ClampAgents ==
  /\ pc = "body"
  /\ pc' = "clamped"
  /\ output' = clampDesired(DefaultCount(input))
  /\ UNCHANGED <<body, calls, generator, workers, search, webFindings, proposals,
                 revisions, ballots, candidates, votes, votingResult, finalizer,
                 response, prompts, input>>

NextClamp == ClampAgents

SpecClamp == InitClamp /\ [][NextClamp]_vars

\* C39: for every agentsCount of the request body (missing, not finite,
\* fractional, zero, negative or huge) the clamped count, which is what the
\* route hands to the estimator and to runSwarmTurn, is an integer from 1
\* to MAX_WORKERS; a missing count gives 4 and a whole count in range is
\* kept.
RouteClampsEveryCount ==
  pc = "clamped" =>
    /\ output.num
    /\ output.n \in 1..MAX_WORKERS
    /\ input.t = "undefined" => output.n = 4
    /\ (input.t = "finite" /\ input.tenths % 10 = 0
          /\ input.tenths \div 10 \in 1..MAX_WORKERS) => output.n = input.tenths \div 10

\* The count 0.5 has been clamped to 1.
RouteClampWitness ==
  /\ pc = "clamped"
  /\ input = BodyCount("finite", 5)
  /\ output = Num(1)
====
